---- MODULE Spec2Model ----
(***************************************************************************)
(* Crawl-orchestration core of cafe-jogja (src/cafe_scraper.py): the       *)
(* deduplication index, the checkpoint store and the standard crawl loop.  *)
(*                                                                         *)
(* Strings are sequences of one-character strings, so that lower(),        *)
(* strip(), startswith() and the regular expressions of _normalize_name    *)
(* are computed as the code computes them.  Coordinates are integers in    *)
(* units of 1e-7 degree, so that both roundings of the code (6 decimals in *)
(* get_hash, 4 decimals in is_duplicate) do something.                     *)
(***************************************************************************)
EXTENDS Integers, Sequences, FiniteSets, TLC

VARIABLES
    all_cafes,                  \* self.all_cafes: sequence of retained records
    seen_hashes,                \* self.seen_hashes
    seen_names,                 \* self.seen_names
    seen_coordinates,           \* self.seen_coordinates
    stats,                      \* self.stats (the two dedup counters)
    data_lock,                  \* self.data_lock: 0 = free, else the holding thread
    pc,                         \* position of each caller thread in add_cafe_if_unique
    arg,                        \* the record each caller thread was called with
    ret,                        \* the value each caller thread is about to return
    log,                        \* completed calls, in order of return: [rec, ret]
    chk,                        \* the index each caller thread saw at its duplicate check
    current_strategy_index,     \* self.current_strategy_index
    consecutive_empty_queries,  \* self.consecutive_empty_queries
    high_yield_mode,            \* self.high_yield_mode
    query_performance,          \* self.query_performance: query -> number of new records
    is_paused,                  \* self.is_paused
    should_stop,                \* self.should_stop
    state_file,                 \* scraper_state.json on disk
    resume_data_file,           \* resume_data.json on disk
    proc,                       \* the crawl process: "running", "dead" or "loading"
    save_pc,                    \* position of the main thread inside save_state
    saves,                      \* number of save_state calls so far
    restarts,                   \* number of processes started after the first
    load_result,                \* what load_state returned in this process
    committed,                  \* number of the last save_state call that returned
    ckpt,                       \* the memory at the last save_state call
    cpc,                        \* position of the main thread in full_scrape
    loop_i,                     \* the loop variable i of full_scrape
    strategies,                 \* the local list strategies of full_scrape
    resume,                     \* the parameter resume of full_scrape
    search_results,             \* the extraction collaborator: query -> candidates
    mode,                       \* standard, batch (stealth) or multi (multi-session)
    batch_num,                  \* the loop variable batch_num of BatchProcessor
    queries_in_session,         \* MultiSessionManager.queries_in_session
    session_count,              \* MultiSessionManager.session_count
    current_session_start,      \* MultiSessionManager.current_session_start
    now,                        \* time.time(), in minutes
    driver,                     \* self.driver: none, up (a live session) or closed
    rotations,                  \* one entry per rotate_session call that slept or not
    rotation_failed,            \* a session teardown or creation has raised
    last_outcome,               \* how the last query of the loop ended
    empty_streak,               \* queries in a row that retained nothing (batch, multi)
    executed_in_session,        \* queries that reached the browser session in use
    max_consecutive_empty,      \* self.max_consecutive_empty, set by main
    area_filter,                \* the parameter area_filter of full_scrape (<<>> is None)
    output_file,                \* the newest file save_data wrote
    extraction,                 \* the worker threads of process_elements_parallel
    touched,                    \* what the instances of a coordinated run did to files, in order
    query_distribution,         \* what distribute_queries_by_region returned
    anti_session_count,         \* AntiDetectionManager.session_count
    last_action_time,           \* AntiDetectionManager.last_action_time, in half seconds
    rate_clock,                 \* time.time() as rate_limit reads it, in half seconds
    slept,                      \* what the last rate_limit call slept before its break test
    since_break,                \* rate_limit calls since the last long break
    last_gap,                   \* calls that preceded the last long break since the one before
    generated,                  \* the lists returned by the calls of the generator so far
    instance_files,             \* the newest .json file under each instance directory
    instance_state,             \* the process of each instance, as the operating system has it
    instance_processes,         \* self.instance_processes: the instances with a Popen handle
    instance_results,           \* self.instance_results
    all_results,                \* self.all_results of the coordinator
    duplicates_removed,         \* the local duplicates_removed of the merge
    coord_pc,                   \* position of run_coordinated_scraping
    final_report                \* the metadata save_final_results wrote, if any

indexVars == <<all_cafes, seen_hashes, seen_names, seen_coordinates, stats>>
threadVars == <<data_lock, pc, arg, ret, log, chk>>
crawlVars == <<current_strategy_index, consecutive_empty_queries, high_yield_mode,
               query_performance, is_paused, should_stop>>
diskVars == <<state_file, resume_data_file>>
procVars == <<proc, save_pc, saves, restarts, load_result>>
ghostVars == <<committed, ckpt>>
loopVars == <<cpc, loop_i, strategies, resume, search_results>>
modeVars == <<mode, batch_num, queries_in_session, session_count, current_session_start,
              now, driver, rotations, rotation_failed, last_outcome, empty_streak,
              executed_in_session>>
rateVars == <<anti_session_count, last_action_time, rate_clock, slept, since_break,
              last_gap>>
coordVars == <<instance_files, instance_state, instance_processes, instance_results,
               all_results, duplicates_removed, coord_pc, final_report>>
fleetVars == <<touched, query_distribution>>
quietVars == <<max_consecutive_empty, area_filter, extraction, fleetVars, rateVars,
               generated, coordVars>>
sideVars == <<quietVars, output_file>>
otherVars == <<crawlVars, diskVars, procVars, ghostVars, loopVars, modeVars, sideVars>>
vars == <<all_cafes, seen_hashes, seen_names, seen_coordinates, stats,
          data_lock, pc, arg, ret, log, chk,
          current_strategy_index, consecutive_empty_queries, high_yield_mode,
          query_performance, is_paused, should_stop,
          state_file, resume_data_file, proc, save_pc, saves, restarts, load_result,
          committed, ckpt, cpc, loop_i, strategies, resume, search_results,
          mode, batch_num, queries_in_session, session_count, current_session_start,
          now, driver, rotations, rotation_failed, last_outcome, empty_streak,
          executed_in_session,
          max_consecutive_empty, area_filter, output_file, extraction, touched,
          query_distribution, anti_session_count, last_action_time, rate_clock,
          slept, since_break, last_gap, generated,
          instance_files, instance_state, instance_processes, instance_results,
          all_results, duplicates_removed, coord_pc, final_report>>

-----------------------------------------------------------------------------
(* Bounds *)

NumThreads == 3
MaxCalls == 3
\* the setting --max-empty-queries of a crawl
MaxEmptyQueries == 2
\* --instances of the coordinator
NumInstances == 2

Threads == 1..NumThreads

-----------------------------------------------------------------------------
(* Characters and the str methods the code uses *)

UpperChars == <<"A","B","C","D","E","F","G","H","I","J","K","L","M",
                "N","O","P","Q","R","S","T","U","V","W","X","Y","Z">>
LowerChars == <<"a","b","c","d","e","f","g","h","i","j","k","l","m",
                "n","o","p","q","r","s","t","u","v","w","x","y","z">>
DigitChars == {"0","1","2","3","4","5","6","7","8","9"}

Range(s) == {s[i] : i \in DOMAIN s}

IsSpace(c) == c \in {" ", "\t", "\n"}

\* \w of the re module, on the ASCII characters of the model
WordChars == Range(UpperChars) \cup Range(LowerChars) \cup DigitChars \cup {"_"}
IsWordChar(c) == c \in WordChars

LowerOf == [c \in Range(UpperChars) |->
               LowerChars[CHOOSE i \in DOMAIN UpperChars : UpperChars[i] = c]]
LowerChar(c) == IF c \in DOMAIN LowerOf THEN LowerOf[c] ELSE c

\* str.lower()
StrLower(s) == [i \in 1..Len(s) |-> LowerChar(s[i])]

RECURSIVE LStrip(_)
LStrip(s) == IF s # <<>> /\ IsSpace(Head(s)) THEN LStrip(Tail(s)) ELSE s

RECURSIVE RStrip(_)
RStrip(s) ==
    IF s # <<>> /\ IsSpace(s[Len(s)]) THEN RStrip(SubSeq(s, 1, Len(s) - 1)) ELSE s

\* str.strip()
StrStrip(s) == RStrip(LStrip(s))

\* str.startswith(p), str.endswith(p)
StartsWith(s, p) == Len(s) >= Len(p) /\ SubSeq(s, 1, Len(p)) = p
EndsWith(s, p) == Len(s) >= Len(p) /\ SubSeq(s, Len(s) - Len(p) + 1, Len(s)) = p

\* re.sub(r'[^\w\s]', '', s)
RemoveSpecial(s) == SelectSeq(s, LAMBDA c : IsWordChar(c) \/ IsSpace(c))

\* re.sub(r'\s+', ' ', s): every maximal run of whitespace becomes one space
RECURSIVE CollapseSpaces(_)
CollapseSpaces(s) ==
    IF s = <<>> THEN <<>>
    ELSE IF IsSpace(Head(s))
         THEN <<" ">> \o CollapseSpaces(LStrip(s))
         ELSE <<Head(s)>> \o CollapseSpaces(Tail(s))

-----------------------------------------------------------------------------
(* _normalize_name *)

prefixes == << <<"k","a","f","e">>, <<"c","a","f","e">>, <<"k","e","d","a","i">>,
               <<"w","a","r","u","n","g">>, <<"t","o","k","o">>,
               <<"r","u","m","a","h">> >>
suffixes == << <<"c","o","f","f","e","e">>, <<"k","o","p","i">>, <<"s","h","o","p">>,
               <<"s","t","o","r","e">>, <<"h","o","u","s","e">>,
               <<"j","o","g","j","a">>, <<"y","o","g","y","a">> >>

\* for prefix in prefixes: if normalized.startswith(prefix + ' '): ...
RECURSIVE StripPrefixes(_, _)
StripPrefixes(s, k) ==
    IF k > Len(prefixes) THEN s
    ELSE IF StartsWith(s, prefixes[k] \o <<" ">>)
         THEN StripPrefixes(StrStrip(SubSeq(s, Len(prefixes[k]) + 1, Len(s))), k + 1)
         ELSE StripPrefixes(s, k + 1)

\* for suffix in suffixes: if normalized.endswith(' ' + suffix): ...
RECURSIVE StripSuffixes(_, _)
StripSuffixes(s, k) ==
    IF k > Len(suffixes) THEN s
    ELSE IF EndsWith(s, <<" ">> \o suffixes[k])
         THEN StripSuffixes(StrStrip(SubSeq(s, 1, Len(s) - Len(suffixes[k]))), k + 1)
         ELSE StripSuffixes(s, k + 1)

normalize_name(name) ==
    IF name = <<>> THEN <<>>
    ELSE StrStrip(CollapseSpaces(RemoveSpecial(
             StripSuffixes(StripPrefixes(StrStrip(StrLower(name)), 1), 1))))

-----------------------------------------------------------------------------
(* Coordinates: integers in units of 1e-7 degree *)

Abs(x) == IF x < 0 THEN -x ELSE x

\* the multiple of m nearest to x >= 0 (a tie goes to the even multiple)
RoundNat(x, m) ==
    LET q == x \div m
        r == x % m
    IN  IF 2 * r > m \/ (2 * r = m /\ q % 2 = 1) THEN (q + 1) * m ELSE q * m

\* f"{x:.6f}": the sign character and the digits, rounded to 6 decimals
Fmt6(x) == [neg |-> x < 0, digits |-> RoundNat(Abs(x), 10)]

\* round(x, 4): a float, so -0.0 and 0.0 are the same value
Round4(x) == IF x < 0 THEN -RoundNat(-x, 1000) ELSE RoundNat(x, 1000)

\* Python truthiness of a float
Truthy(x) == x # 0

\* CafeData.get_hash: the md5 of a string is modelled by the string's three
\* fields (the two numbers end the string, so the fields determine it)
get_hash(cafe) ==
    <<StrStrip(StrLower(cafe.name)), Fmt6(cafe.lat), Fmt6(cafe.lon)>>

\* a Python tuple, as opposed to a list
PyTuple(items) == [type |-> "tuple", items |-> items]
PyList(items) == [type |-> "list", items |-> items]

coord_tuple(cafe) == PyTuple(<<Round4(cafe.lat), Round4(cafe.lon)>>)

-----------------------------------------------------------------------------
(* Candidate records *)

KopiAbc == <<"K","o","p","i"," ","A","b","c">>
kopiabc == <<"k","o","p","i"," ","a","b","c">>
KopiXyz == <<"K","o","p","i"," ","X","y","z">>
KedaiDef == <<"K","e","d","a","i"," "," ","D","e","f","!">>
TokoDef == <<"T","o","k","o"," ","D","e","f">>
GhiCoffee == <<" ","G","h","i"," ","C","o","f","f","e","e">>

rA == [name |-> KopiAbc, lat |-> -77800000, lon |-> 1103700000]
rB == [name |-> kopiabc, lat |-> -77800010, lon |-> 1103700010]
rC == [name |-> KopiXyz, lat |-> -79000000, lon |-> 1102000000]
\* in rA's grid cell under another name, which normalizes to rF's
rD == [name |-> KedaiDef, lat |-> -77800400, lon |-> 1103700004]
\* a record without latitude (0.0 is the dataclass default)
rF == [name |-> TokoDef, lat |-> 0, lon |-> 1102000000]
\* a record whose latitude is not zero and rounds to 0.0
rG == [name |-> GhiCoffee, lat |-> 400, lon |-> 1102000400]

Records == {rA, rB, rC, rD, rF, rG}

-----------------------------------------------------------------------------
(* is_duplicate and add_cafe_if_unique *)

\* mutants of is_duplicate: one criterion only, or the name criterion missing
is_duplicate_hash_only(cafe) == get_hash(cafe) \in seen_hashes

is_duplicate_cell_only(cafe) ==
    /\ Truthy(cafe.lat) /\ Truthy(cafe.lon)
    /\ coord_tuple(cafe) \in seen_coordinates

is_duplicate_without_name(cafe) ==
    IF get_hash(cafe) \in seen_hashes THEN TRUE
    ELSE IF Truthy(cafe.lat) /\ Truthy(cafe.lon)
         THEN coord_tuple(cafe) \in seen_coordinates
         ELSE FALSE

\* is_duplicate, on given dedup sets
DuplicateIn(hashes, names, coords, cafe) ==
    IF get_hash(cafe) \in hashes THEN TRUE
    ELSE IF normalize_name(cafe.name) \in names THEN TRUE
    ELSE IF Truthy(cafe.lat) /\ Truthy(cafe.lon)
         THEN coord_tuple(cafe) \in coords
         ELSE FALSE

is_duplicate(cafe) == DuplicateIn(seen_hashes, seen_names, seen_coordinates, cafe)

\* mutant of LockFree: the check-and-insert sequence is not serialized
NoLock == TRUE

\* threading.Lock: acquire blocks while another thread holds the lock
LockFree == data_lock = 0

\* the deduplication index and the retained records
Index == [cafes |-> all_cafes, hashes |-> seen_hashes, names |-> seen_names,
          coords |-> seen_coordinates]

\* the process runs and its main thread is not inside save_state
MainRuns == proc = "running" /\ save_pc = "none"

EmptyDict == [q \in {} |-> 0]
NoFile == [st |-> "absent", gen |-> 0, data |-> EmptyDict]

\* UltimateCafeScraper.__init__: the memory of a new process
FreshMemory ==
    /\ all_cafes = <<>>
    /\ seen_hashes = {}
    /\ seen_names = {}
    /\ seen_coordinates = {}
    /\ stats = [unique_cafes |-> 0, duplicates_removed |-> 0]
    /\ data_lock = 0
    /\ consecutive_empty_queries = 0
    /\ query_performance = EmptyDict
    /\ high_yield_mode = FALSE
    /\ is_paused = FALSE
    /\ should_stop = FALSE
    /\ current_strategy_index = 0

\* the fields of a checkpoint, as they are in memory
Checkpoint ==
    [current_strategy_index |-> current_strategy_index,
     consecutive_empty_queries |-> consecutive_empty_queries,
     high_yield_mode |-> high_yield_mode,
     query_performance |-> query_performance,
     stats |-> stats,
     seen_hashes |-> seen_hashes,
     seen_names |-> seen_names,
     seen_coordinates |-> seen_coordinates]

\* full_scrape is not running
LoopIdle ==
    /\ cpc = "none"
    /\ loop_i = 0
    /\ strategies = <<>>
    /\ resume = FALSE
    /\ search_results = EmptyDict

\* no processing mode is chosen, no session was opened
ModesIdle ==
    /\ mode = "none"
    /\ batch_num = 0
    /\ queries_in_session = 0
    /\ session_count = 0
    /\ current_session_start = 0
    /\ now = 0
    /\ driver = "none"
    /\ rotations = <<>>
    /\ rotation_failed = FALSE
    /\ last_outcome = "none"
    /\ empty_streak = 0
    /\ executed_in_session = 0

\* the rate limiter after AntiDetectionManager.__init__
RateIdle ==
    /\ anti_session_count = 0
    /\ last_action_time = 0
    /\ rate_clock = 0
    /\ slept = 0
    /\ since_break = 0
    /\ last_gap = 0

\* no coordinator runs
CoordIdle ==
    /\ instance_files = <<>>
    /\ instance_state = <<>>
    /\ instance_processes = <<>>
    /\ instance_results = <<>>
    /\ all_results = <<>>
    /\ duplicates_removed = 0
    /\ coord_pc = "none"
    /\ final_report = <<>>

\* a crawl process with the ceiling main gave it; nothing else runs
\* save_data has written nothing
NoOutput == [suffix |-> "none", cafes |-> <<>>]

\* no worker thread runs
ExtractionIdle == <<>>

\* no area filter, no output, no extraction, no coordinated run
ExtraIdle ==
    /\ area_filter = <<>>
    /\ output_file = NoOutput
    /\ extraction = ExtractionIdle
    /\ touched = <<>>
    /\ query_distribution = <<>>

SideIdle ==
    /\ max_consecutive_empty = MaxEmptyQueries
    /\ ExtraIdle
    /\ RateIdle
    /\ generated = <<>>
    /\ CoordIdle

EmptyIndex == [cafes |-> <<>>, hashes |-> {}, names |-> {}, coords |-> {}]

Init ==
    /\ FreshMemory
    /\ state_file = NoFile
    /\ resume_data_file = NoFile
    /\ proc = "running"
    /\ save_pc = "none"
    /\ saves = 0
    /\ restarts = 0
    /\ load_result = "none"
    /\ committed = 0
    /\ ckpt = Checkpoint
    /\ LoopIdle
    /\ ModesIdle
    /\ SideIdle
    /\ pc = [t \in Threads |-> "idle"]
    /\ arg = [t \in Threads |-> rA]
    /\ ret = [t \in Threads |-> FALSE]
    /\ log = <<>>
    /\ chk = [t \in Threads |-> EmptyIndex]

InFlight == {t \in Threads : pc[t] # "idle"}

\* a caller thread enters add_cafe_if_unique(cafe)
Call(t, cafe) ==
    /\ MainRuns
    /\ pc[t] = "idle"
    /\ Len(log) + Cardinality(InFlight) < MaxCalls
    /\ pc' = [pc EXCEPT ![t] = "acquire"]
    /\ arg' = [arg EXCEPT ![t] = cafe]
    /\ UNCHANGED <<indexVars, data_lock, ret, log, chk>>
    /\ UNCHANGED otherVars

\* with self.data_lock:
Acquire(t) ==
    /\ MainRuns
    /\ pc[t] = "acquire"
    /\ LockFree
    /\ data_lock' = t
    /\ pc' = [pc EXCEPT ![t] = "check"]
    /\ UNCHANGED <<indexVars, arg, ret, log, chk>>
    /\ UNCHANGED otherVars

\* mutant of Check: the hash is registered before the duplicate test
CheckRegistersFirst(t) ==
    /\ MainRuns
    /\ pc[t] = "check"
    /\ seen_hashes' = seen_hashes \cup {get_hash(arg[t])}
    /\ IF is_duplicate(arg[t])
       THEN /\ stats' = [stats EXCEPT !.duplicates_removed = @ + 1]
            /\ ret' = [ret EXCEPT ![t] = FALSE]
            /\ pc' = [pc EXCEPT ![t] = "release"]
       ELSE /\ pc' = [pc EXCEPT ![t] = "add_hash"]
            /\ UNCHANGED <<stats, ret>>
    /\ chk' = [chk EXCEPT ![t] = Index]
    /\ UNCHANGED <<all_cafes, seen_names, seen_coordinates, data_lock, arg, log>>
    /\ UNCHANGED otherVars

\* if self.is_duplicate(cafe): stats['duplicates_removed'] += 1; return False
Check(t) ==
    /\ MainRuns
    /\ pc[t] = "check"
    /\ IF is_duplicate(arg[t])
       THEN /\ stats' = [stats EXCEPT !.duplicates_removed = @ + 1]
            /\ ret' = [ret EXCEPT ![t] = FALSE]
            /\ pc' = [pc EXCEPT ![t] = "release"]
       ELSE /\ pc' = [pc EXCEPT ![t] = "add_hash"]
            /\ UNCHANGED <<stats, ret>>
    /\ chk' = [chk EXCEPT ![t] = Index]
    /\ UNCHANGED <<all_cafes, seen_hashes, seen_names, seen_coordinates,
                   data_lock, arg, log>>
    /\ UNCHANGED otherVars

\* self.seen_hashes.add(cafe.get_hash())
AddHash(t) ==
    /\ MainRuns
    /\ pc[t] = "add_hash"
    /\ seen_hashes' = seen_hashes \cup {get_hash(arg[t])}
    /\ pc' = [pc EXCEPT ![t] = "add_name"]
    /\ UNCHANGED <<all_cafes, seen_names, seen_coordinates, stats,
                   data_lock, arg, ret, log, chk>>
    /\ UNCHANGED otherVars

\* mutant of AddName: the normalized name is not registered
AddNameSkipped(t) ==
    /\ MainRuns
    /\ pc[t] = "add_name"
    /\ pc' = [pc EXCEPT ![t] = "add_coord"]
    /\ UNCHANGED <<all_cafes, seen_hashes, seen_names, seen_coordinates, stats,
                   data_lock, arg, ret, log, chk>>
    /\ UNCHANGED otherVars

\* self.seen_names.add(self._normalize_name(cafe.name))
AddName(t) ==
    /\ MainRuns
    /\ pc[t] = "add_name"
    /\ seen_names' = seen_names \cup {normalize_name(arg[t].name)}
    /\ pc' = [pc EXCEPT ![t] = "add_coord"]
    /\ UNCHANGED <<all_cafes, seen_hashes, seen_coordinates, stats,
                   data_lock, arg, ret, log, chk>>
    /\ UNCHANGED otherVars

\* if cafe.lat and cafe.lon: self.seen_coordinates.add(coord_tuple)
AddCoord(t) ==
    /\ MainRuns
    /\ pc[t] = "add_coord"
    /\ seen_coordinates' =
           IF Truthy(arg[t].lat) /\ Truthy(arg[t].lon)
           THEN seen_coordinates \cup {coord_tuple(arg[t])}
           ELSE seen_coordinates
    /\ pc' = [pc EXCEPT ![t] = "append"]
    /\ UNCHANGED <<all_cafes, seen_hashes, seen_names, stats,
                   data_lock, arg, ret, log, chk>>
    /\ UNCHANGED otherVars

\* mutant of AppendCafe: the record is appended and not counted
AppendCafeUncounted(t) ==
    /\ MainRuns
    /\ pc[t] = "append"
    /\ all_cafes' = Append(all_cafes, arg[t])
    /\ ret' = [ret EXCEPT ![t] = TRUE]
    /\ pc' = [pc EXCEPT ![t] = "release"]
    /\ UNCHANGED <<seen_hashes, seen_names, seen_coordinates, stats, data_lock, arg,
                   log, chk>>
    /\ UNCHANGED otherVars

\* self.all_cafes.append(cafe); stats['unique_cafes'] += 1; return True
AppendCafe(t) ==
    /\ MainRuns
    /\ pc[t] = "append"
    /\ all_cafes' = Append(all_cafes, arg[t])
    /\ stats' = [stats EXCEPT !.unique_cafes = @ + 1]
    /\ ret' = [ret EXCEPT ![t] = TRUE]
    /\ pc' = [pc EXCEPT ![t] = "release"]
    /\ UNCHANGED <<seen_hashes, seen_names, seen_coordinates, data_lock, arg, log, chk>>
    /\ UNCHANGED otherVars

\* leaving the with block releases the lock; the call returns
Release(t) ==
    /\ MainRuns
    /\ pc[t] = "release"
    /\ data_lock' = IF data_lock = t THEN 0 ELSE data_lock
    /\ log' = Append(log, [rec |-> arg[t], ret |-> ret[t]])
    /\ pc' = [pc EXCEPT ![t] = "idle"]
    \* the frame of the call is gone
    /\ arg' = [arg EXCEPT ![t] = rA]
    /\ ret' = [ret EXCEPT ![t] = FALSE]
    /\ chk' = [chk EXCEPT ![t] = EmptyIndex]
    /\ UNCHANGED indexVars
    /\ UNCHANGED otherVars

Next ==
    \E t \in Threads :
        \/ \E cafe \in Records : Call(t, cafe)
        \/ Acquire(t)
        \/ Check(t)
        \/ AddHash(t)
        \/ AddName(t)
        \/ AddCoord(t)
        \/ AppendCafe(t)
        \/ Release(t)

Spec == Init /\ [][Next]_vars

-----------------------------------------------------------------------------
(* The checkpoint store: save_state, load_state, signals, process death *)

MaxSaves == 2
MaxRestarts == 1

\* list(a_set): the elements once each, in an order the program does not choose
ListsOf(S) ==
    {f \in [1..Cardinality(S) -> S] : \A i, j \in 1..Cardinality(S) : i # j => f[i] # f[j]}

\* json.dump writes a tuple as an array; json.load reads an array as a list
JsonOfCoord(coord) == PyList(coord.items)

\* state_data of save_state, as json.dump writes it (the timestamp, which
\* load_state only logs, is left out)
StateJson(c, hashes, names, coords) ==
    [current_strategy_index |-> c.current_strategy_index,
     consecutive_empty_queries |-> c.consecutive_empty_queries,
     high_yield_mode |-> c.high_yield_mode,
     query_performance |-> c.query_performance,
     stats |-> c.stats,
     seen_hashes |-> hashes,
     seen_names |-> names,
     seen_coordinates |-> [i \in DOMAIN coords |-> JsonOfCoord(coords[i])]]

\* resume_data of save_state: asdict(cafe) for every retained record
ResumeJson(cafes) ==
    [cafes |-> cafes, metadata |-> [total_cafes |-> Len(cafes)]]

\* save_state up to open(self.state_file, 'w'), which truncates the file
SaveBegin ==
    /\ saves < MaxSaves
    /\ saves' = saves + 1
    /\ state_file' = [st |-> "partial", gen |-> saves + 1, data |-> EmptyDict]
    /\ save_pc' = "state_open"
    /\ ckpt' = Checkpoint
    /\ UNCHANGED committed

\* the periodic save_state of the main thread, between two queries
PeriodicSave ==
    /\ MainRuns
    /\ \A t \in Threads : pc[t] = "idle"
    /\ SaveBegin
    /\ UNCHANGED <<modeVars, sideVars, loopVars, indexVars, threadVars, crawlVars, resume_data_file,
                   proc, restarts, load_result>>

\* signal_handler: runs on the main thread, wherever that thread is
Signal(signum) ==
    /\ MainRuns
    /\ IF signum = "SIGINT"
       THEN is_paused' = TRUE /\ UNCHANGED should_stop
       ELSE should_stop' = TRUE /\ UNCHANGED is_paused
    /\ SaveBegin
    /\ UNCHANGED <<modeVars, sideVars, loopVars, indexVars, threadVars, current_strategy_index,
                   consecutive_empty_queries, high_yield_mode, query_performance,
                   resume_data_file, proc, restarts, load_result>>

\* json.dump(state_data, f) and the end of the first with block
SaveStateDump ==
    /\ proc = "running"
    /\ save_pc = "state_open"
    /\ \E hashes \in ListsOf(seen_hashes), names \in ListsOf(seen_names),
          coords \in ListsOf(seen_coordinates) :
           state_file' = [st |-> "complete", gen |-> saves,
                          data |-> StateJson(Checkpoint, hashes, names, coords)]
    /\ save_pc' = "state_closed"
    /\ UNCHANGED <<modeVars, sideVars, loopVars, indexVars, threadVars, crawlVars, resume_data_file,
                   proc, saves, restarts, load_result, ghostVars>>

\* open(self.resume_data_file, 'w')
SaveResumeOpen ==
    /\ proc = "running"
    /\ save_pc = "state_closed"
    /\ resume_data_file' = [st |-> "partial", gen |-> saves, data |-> EmptyDict]
    /\ save_pc' = "resume_open"
    /\ UNCHANGED <<modeVars, sideVars, loopVars, indexVars, threadVars, crawlVars, state_file,
                   proc, saves, restarts, load_result, ghostVars>>

\* json.dump(resume_data, f); save_state returns
SaveResumeDump ==
    /\ proc = "running"
    /\ save_pc = "resume_open"
    /\ resume_data_file' = [st |-> "complete", gen |-> saves, data |-> ResumeJson(all_cafes)]
    /\ save_pc' = "none"
    /\ committed' = saves
    /\ UNCHANGED <<modeVars, sideVars, loopVars, indexVars, threadVars, crawlVars, state_file,
                   proc, saves, restarts, load_result, ckpt>>

\* the memory of a process that does not exist (yet): what __init__ will set
MemoryReset ==
    /\ all_cafes' = <<>>
    /\ seen_hashes' = {}
    /\ seen_names' = {}
    /\ seen_coordinates' = {}
    /\ stats' = [unique_cafes |-> 0, duplicates_removed |-> 0]
    /\ data_lock' = 0
    /\ pc' = [t \in Threads |-> "idle"]
    /\ arg' = [t \in Threads |-> rA]
    /\ ret' = [t \in Threads |-> FALSE]
    /\ chk' = [t \in Threads |-> EmptyIndex]
    /\ consecutive_empty_queries' = 0
    /\ query_performance' = EmptyDict
    /\ high_yield_mode' = FALSE
    /\ is_paused' = FALSE
    /\ should_stop' = FALSE
    /\ current_strategy_index' = 0

\* the process is killed (SIGKILL, power loss): only the disk survives
Kill ==
    /\ proc = "running"
    /\ restarts < MaxRestarts
    /\ proc' = "dead"
    /\ save_pc' = "none"
    /\ load_result' = "none"
    /\ MemoryReset
    /\ UNCHANGED <<modeVars, sideVars, loopVars, log, diskVars, saves, restarts, ghostVars>>

\* a new process is started with --resume
Restart ==
    /\ proc = "dead"
    /\ proc' = "loading"
    /\ restarts' = restarts + 1
    /\ UNCHANGED <<modeVars, sideVars, loopVars, indexVars, threadVars, crawlVars, diskVars, save_pc, saves,
                   load_result, ghostVars>>

\* mutant of CoordOfJson: the array read from the file is kept as a list
CoordOfJsonKept(coord) == coord

\* tuple(coord) if isinstance(coord, list) else coord
CoordOfJson(coord) == IF coord.type = "list" THEN PyTuple(coord.items) ELSE coord

\* load_state, lines 537-547: the fields are assigned from the state file
LoadStateFields(data) ==
    /\ current_strategy_index' = data.current_strategy_index
    /\ consecutive_empty_queries' = data.consecutive_empty_queries
    /\ high_yield_mode' = data.high_yield_mode
    /\ query_performance' = data.query_performance
    /\ stats' = data.stats
    /\ seen_hashes' = Range(data.seen_hashes)
    /\ seen_names' = Range(data.seen_names)
    /\ seen_coordinates' = {CoordOfJson(c) : c \in Range(data.seen_coordinates)}

\* load_state: False when a file is missing or json.load raises, else True
LoadState ==
    /\ proc = "loading"
    /\ proc' = "running"
    /\ IF state_file.st = "absent" \/ resume_data_file.st = "absent"
       THEN /\ load_result' = "false"
            /\ UNCHANGED <<indexVars, current_strategy_index,
                           consecutive_empty_queries, high_yield_mode,
                           query_performance>>
       ELSE IF state_file.st = "partial"
       THEN /\ load_result' = "false"
            /\ UNCHANGED <<indexVars, current_strategy_index,
                           consecutive_empty_queries, high_yield_mode,
                           query_performance>>
       ELSE /\ LoadStateFields(state_file.data)
            /\ IF resume_data_file.st = "partial"
               THEN /\ load_result' = "false"
                    /\ UNCHANGED all_cafes
               ELSE /\ load_result' = "true"
                    /\ all_cafes' = resume_data_file.data.cafes
    /\ UNCHANGED <<modeVars, sideVars, loopVars, threadVars, is_paused, should_stop, diskVars, save_pc, saves,
                   restarts, ghostVars>>

\* in one crawl process add_cafe_if_unique is called by the main thread only
MainThread == 1

CheckpointRecords == {rA, rC}

NextCheckpoint ==
    \/ \E cafe \in CheckpointRecords : Call(MainThread, cafe)
    \/ Acquire(MainThread)
    \/ Check(MainThread)
    \/ AddHash(MainThread)
    \/ AddName(MainThread)
    \/ AddCoord(MainThread)
    \/ AppendCafe(MainThread)
    \/ Release(MainThread)
    \/ PeriodicSave
    \/ \E signum \in {"SIGINT", "SIGTERM"} : Signal(signum)
    \/ SaveStateDump
    \/ SaveResumeOpen
    \/ SaveResumeDump
    \/ Kill
    \/ Restart
    \/ LoadState

SpecCheckpoint == Init /\ [][NextCheckpoint]_vars

-----------------------------------------------------------------------------
(* Checkpoint round trip: save_state in one process, load_state in the next *)

MaxIndex == 1

\* the index after the records of cafes were added in turn (lines 665-669)
RECURSIVE IndexOfCafes(_)
IndexOfCafes(cafes) ==
    IF cafes = <<>> THEN EmptyIndex
    ELSE LET idx == IndexOfCafes(SubSeq(cafes, 1, Len(cafes) - 1))
             cafe == cafes[Len(cafes)]
         IN  [cafes |-> cafes,
              hashes |-> idx.hashes \cup {get_hash(cafe)},
              names |-> idx.names \cup {normalize_name(cafe.name)},
              coords |-> IF Truthy(cafe.lat) /\ Truthy(cafe.lon)
                         THEN idx.coords \cup {coord_tuple(cafe)}
                         ELSE idx.coords]

\* retained lists a crawl can hold: no record is a duplicate of an earlier one
RoundTripCafes ==
    {cafes \in UNION {[1..n -> {rA, rC, rG}] : n \in 0..3} :
        \A i, j \in DOMAIN cafes : i # j => cafes[i] # cafes[j]}

RoundTripYields == {EmptyDict, [q \in {"cafe di depok"} |-> 2]}

InitRoundTrip ==
    /\ \E cafes \in RoundTripCafes :
           /\ all_cafes = cafes
           /\ seen_hashes = IndexOfCafes(cafes).hashes
           /\ seen_names = IndexOfCafes(cafes).names
           /\ seen_coordinates = IndexOfCafes(cafes).coords
           /\ \E d \in 0..1 :
                  stats = [unique_cafes |-> Len(cafes), duplicates_removed |-> d]
    /\ current_strategy_index \in 0..MaxIndex
    /\ consecutive_empty_queries \in 0..1
    /\ high_yield_mode \in BOOLEAN
    /\ query_performance \in RoundTripYields
    /\ is_paused = FALSE
    /\ should_stop = FALSE
    /\ data_lock = 0
    /\ pc = [t \in Threads |-> "idle"]
    /\ arg = [t \in Threads |-> rA]
    /\ ret = [t \in Threads |-> FALSE]
    /\ log = <<>>
    /\ chk = [t \in Threads |-> EmptyIndex]
    /\ state_file = NoFile
    /\ resume_data_file = NoFile
    /\ proc = "running"
    /\ save_pc = "none"
    /\ saves = 0
    /\ restarts = 0
    /\ load_result = "none"
    /\ committed = 0
    /\ ckpt = Checkpoint
    /\ LoopIdle
    /\ ModesIdle
    /\ SideIdle

\* the process ends after a save_state call that returned
Exit ==
    /\ save_pc = "none"
    /\ committed > 0
    /\ committed = saves
    /\ Kill

NextRoundTrip ==
    \/ PeriodicSave
    \/ SaveStateDump
    \/ SaveResumeOpen
    \/ SaveResumeDump
    \/ Exit
    \/ Restart
    \/ LoadState

SpecRoundTrip == InitRoundTrip /\ [][NextRoundTrip]_vars

-----------------------------------------------------------------------------
(* full_scrape: the standard loop, with pause, save, reload and resume *)

NumStrategies == 4
\* the argument max_cafes of the run
MaxCafes == 2

\* the thresholds written in the loop
HighYieldAfter == 50
SaveEvery == 20
\* the default of the argument results_per_query
ResultsPerQuery == 100

Min(a, b) == IF a < b THEN a ELSE b

\* d[k] = v on a dict
DictPut(d, k, v) == [x \in DOMAIN d \cup {k} |-> IF x = k THEN v ELSE d[x]]

\* strategies the generator returns: keyword, context and region, sorted
StrategyPool ==
    << [query |-> "cafe buat nugas bantul", expected_results |-> 100, priority |-> 0],
       [query |-> "cafe buat nugas gunungkidul", expected_results |-> 100, priority |-> 0],
       [query |-> "cafe buat nugas kota jogja", expected_results |-> 100, priority |-> 0],
       [query |-> "cafe buat nugas kulon progo", expected_results |-> 100, priority |-> 0],
       [query |-> "cafe buat nugas sleman", expected_results |-> 100, priority |-> 0],
       [query |-> "cafe buat nugas yogyakarta", expected_results |-> 100, priority |-> 0] >>

\* self.search_strategies; the generator is taken to return the same list in
\* every process, which is the case most favourable to a resumed crawl
search_strategies == SubSeq(StrategyPool, 1, NumStrategies)

Queries == {search_strategies[k].query : k \in DOMAIN search_strategies}

\* what the result panel lists for one query
CrawlYields == {<<>>, <<rA>>, <<rC>>, <<rA, rC>>}

\* the fields of the scraper the loop works on, and its local strategies
Memory ==
    [all_cafes |-> all_cafes,
     seen_hashes |-> seen_hashes,
     seen_names |-> seen_names,
     seen_coordinates |-> seen_coordinates,
     stats |-> stats,
     current_strategy_index |-> current_strategy_index,
     consecutive_empty_queries |-> consecutive_empty_queries,
     high_yield_mode |-> high_yield_mode,
     query_performance |-> query_performance,
     strategies |-> strategies,
     brk |-> FALSE]

\* the memory after __init__, at the start of full_scrape(resume=False)
FreshRecord ==
    [all_cafes |-> <<>>,
     seen_hashes |-> {},
     seen_names |-> {},
     seen_coordinates |-> {},
     stats |-> [unique_cafes |-> 0, duplicates_removed |-> 0],
     current_strategy_index |-> 0,
     consecutive_empty_queries |-> 0,
     high_yield_mode |-> FALSE,
     query_performance |-> EmptyDict,
     strategies |-> search_strategies,
     brk |-> FALSE]

CheckpointOf(m) ==
    [current_strategy_index |-> m.current_strategy_index,
     consecutive_empty_queries |-> m.consecutive_empty_queries,
     high_yield_mode |-> m.high_yield_mode,
     query_performance |-> m.query_performance,
     stats |-> m.stats,
     seen_hashes |-> m.seen_hashes,
     seen_names |-> m.seen_names,
     seen_coordinates |-> m.seen_coordinates]

\* add_cafe_if_unique, run from the lock to the return by its only caller
AddIfUnique(m, cafe) ==
    IF DuplicateIn(m.seen_hashes, m.seen_names, m.seen_coordinates, cafe)
    THEN [m EXCEPT !.stats.duplicates_removed = @ + 1]
    ELSE [m EXCEPT !.seen_hashes = @ \cup {get_hash(cafe)},
                   !.seen_names = @ \cup {normalize_name(cafe.name)},
                   !.seen_coordinates = IF Truthy(cafe.lat) /\ Truthy(cafe.lon)
                                        THEN @ \cup {coord_tuple(cafe)}
                                        ELSE @,
                   !.all_cafes = Append(@, cafe),
                   !.stats.unique_cafes = @ + 1]

\* process_elements_parallel: every extracted record goes through
\* add_cafe_if_unique, and the added ones are the results
RECURSIVE process_elements(_, _, _)
process_elements(m, elements, results) ==
    IF elements = <<>> THEN [m |-> m, results |-> results]
    ELSE LET cafe == Head(elements)
             m1 == AddIfUnique(m, cafe)
         IN  process_elements(m1, Tail(elements),
                              IF Len(m1.all_cafes) > Len(m.all_cafes)
                              THEN Append(results, cafe)
                              ELSE results)

\* search_and_extract(query, max_results): elements[:max_results] are processed
search_and_extract(m, query, max_results, yields) ==
    process_elements(m, SubSeq(yields[query], 1, Min(max_results, Len(yields[query]))), <<>>)

\* what self._generate_search_strategies() returns when the loop switches to
\* high-yield mode: the list of the last call the model has drawn, or, where
\* the model draws none, the list of __init__ once more
high_yield_strategies ==
    IF generated = <<>> THEN search_strategies
    ELSE generated[Len(generated)].strategies

\* mutant of switch_to_high_yield: the whole fresh list is appended
switch_keeps_fresh_list(list, i, fresh) == SubSeq(list, 1, i + 1) \o fresh

\* strategies[:i+1] + high_yield_strategies[:len(remaining_strategies)], where
\* remaining_strategies = strategies[i+1:]
switch_to_high_yield(list, i, fresh) ==
    SubSeq(list, 1, i + 1) \o SubSeq(fresh, 1, Min(Len(list) - (i + 1), Len(fresh)))

\* one pass of the for loop from "self.current_strategy_index = i" on;
\* brk says that the pass left the loop with break
LoopBody(m, i, yields) ==
    LET m1 == [m EXCEPT !.current_strategy_index = i]
    IN  IF Len(m1.all_cafes) >= MaxCafes THEN [m1 EXCEPT !.brk = TRUE]
        ELSE
        LET strategy == m1.strategies[i + 1]
            query == strategy.query
            expected == Min(strategy.expected_results, ResultsPerQuery)
            found == search_and_extract(m1, query, expected, yields)
            m2 == found.m
            m3 == IF found.results # <<>>
                  THEN [m2 EXCEPT !.query_performance = DictPut(@, query, Len(found.results)),
                                  !.consecutive_empty_queries = 0]
                  ELSE [m2 EXCEPT !.consecutive_empty_queries = @ + 1,
                                  !.query_performance = DictPut(@, query, 0)]
            m4 == IF m3.consecutive_empty_queries >= HighYieldAfter /\ ~m3.high_yield_mode
                  THEN [m3 EXCEPT !.high_yield_mode = TRUE,
                                  !.strategies =
                                      switch_to_high_yield(@, i, high_yield_strategies)]
                  ELSE m3
        IN  IF m4.consecutive_empty_queries >= max_consecutive_empty
            THEN [m4 EXCEPT !.brk = TRUE]
            ELSE m4

\* the loop from index i to its end with no signal and no pause
RECURSIVE RunFrom(_, _, _)
RunFrom(m, i, yields) ==
    IF i >= Len(m.strategies) \/ m.brk THEN m
    ELSE RunFrom(LoopBody(m, i, yields), i + 1, yields)

\* the records full_scrape retains in one unbroken pass
UnbrokenCount == Len(RunFrom(FreshRecord, 0, search_results).all_cafes)

\* save_state from its first line to its return
SaveStateWhole(c, cafes) ==
    /\ saves' = saves + 1
    /\ committed' = saves + 1
    /\ ckpt' = c
    /\ \E hashes \in ListsOf(c.seen_hashes), names \in ListsOf(c.seen_names),
          coords \in ListsOf(c.seen_coordinates) :
           state_file' = [st |-> "complete", gen |-> saves + 1,
                          data |-> StateJson(c, hashes, names, coords)]
    /\ resume_data_file' = [st |-> "complete", gen |-> saves + 1,
                            data |-> ResumeJson(cafes)]

NoSave == UNCHANGED <<state_file, resume_data_file, saves, committed, ckpt>>

\* save_data(suffix): nothing is written when all_cafes is empty; otherwise a
\* new file <suffix>_<timestamp> with every record of all_cafes
save_data(suffix, cafes) ==
    output_file' = IF cafes = <<>> THEN output_file
                   ELSE [suffix |-> suffix, cafes |-> cafes]

NoData == UNCHANGED output_file

\* full_scrape(resume=False) in a new process: clear_state, start_index = 0
InitCrawl ==
    /\ FreshMemory
    /\ state_file = NoFile
    /\ resume_data_file = NoFile
    /\ proc = "running"
    /\ save_pc = "none"
    /\ saves = 0
    /\ restarts = 0
    /\ load_result = "none"
    /\ committed = 0
    /\ ckpt = Checkpoint
    /\ cpc = "top"
    /\ loop_i = 0
    /\ strategies = search_strategies
    /\ resume = FALSE
    /\ search_results \in [Queries -> CrawlYields]
    /\ pc = [t \in Threads |-> "idle"]
    /\ arg = [t \in Threads |-> rA]
    /\ ret = [t \in Threads |-> FALSE]
    /\ log = <<>>
    /\ chk = [t \in Threads |-> EmptyIndex]
    /\ data_lock = 0
    /\ ModesIdle
    /\ SideIdle

\* the head of the for loop: range exhausted, should_stop, is_paused
LoopTop ==
    /\ proc = "running"
    /\ cpc = "top"
    /\ IF loop_i >= Len(strategies) \/ should_stop
       THEN cpc' = "end" /\ NoSave
       ELSE IF is_paused
       THEN cpc' = "paused" /\ SaveStateWhole(Checkpoint, all_cafes)
       ELSE cpc' = "body" /\ NoSave
    /\ UNCHANGED <<indexVars, threadVars, crawlVars, proc, save_pc, restarts, load_result>>
    /\ UNCHANGED <<loop_i, strategies, resume, search_results, modeVars, sideVars>>

\* handle_pause and the "if self.should_stop: break" after it; user_input
\* "none" is the call that finds should_stop set and reads nothing
HandlePause(user_input) ==
    /\ proc = "running"
    /\ cpc = "paused"
    /\ user_input = "none" => should_stop
    /\ IF user_input = "r"
       THEN is_paused' = FALSE /\ UNCHANGED should_stop /\ NoSave /\ NoData
       ELSE IF user_input = "s"
       THEN should_stop' = TRUE /\ UNCHANGED is_paused
            /\ SaveStateWhole(Checkpoint, all_cafes)
            /\ save_data("paused", all_cafes)
       ELSE IF user_input \in {"q", "eof"}
       THEN should_stop' = TRUE /\ UNCHANGED is_paused /\ NoSave /\ NoData
       ELSE UNCHANGED <<is_paused, should_stop>> /\ NoSave /\ NoData
    /\ cpc' = IF should_stop' THEN "end" ELSE "body"
    /\ UNCHANGED <<indexVars, threadVars, current_strategy_index,
                   consecutive_empty_queries, high_yield_mode, query_performance,
                   proc, save_pc, restarts, load_result>>
    /\ UNCHANGED <<loop_i, strategies, resume, search_results, modeVars, quietVars>>

\* the rest of one pass of the loop: the query, its bookkeeping, the
\* periodic save
Body ==
    /\ proc = "running"
    /\ cpc = "body"
    /\ \E m \in {LoopBody(Memory, loop_i, search_results)} :
           /\ all_cafes' = m.all_cafes
           /\ seen_hashes' = m.seen_hashes
           /\ seen_names' = m.seen_names
           /\ seen_coordinates' = m.seen_coordinates
           /\ stats' = m.stats
           /\ current_strategy_index' = m.current_strategy_index
           /\ consecutive_empty_queries' = m.consecutive_empty_queries
           /\ high_yield_mode' = m.high_yield_mode
           /\ query_performance' = m.query_performance
           /\ strategies' = m.strategies
           /\ IF m.brk
              THEN cpc' = "end" /\ UNCHANGED loop_i /\ NoSave /\ NoData
              ELSE /\ cpc' = "top"
                   /\ loop_i' = loop_i + 1
                   /\ IF (loop_i + 1) % SaveEvery = 0
                      THEN /\ save_data("progress", m.all_cafes)
                           /\ SaveStateWhole(CheckpointOf(m), m.all_cafes)
                      ELSE NoSave /\ NoData
    /\ last_outcome' = IF Len(all_cafes) >= MaxCafes THEN last_outcome ELSE "ok"
    /\ UNCHANGED <<threadVars, is_paused, should_stop, proc, save_pc, restarts,
                   load_result, resume, search_results>>
    /\ UNCHANGED <<quietVars, mode, batch_num, queries_in_session, session_count,
                   current_session_start, now, driver, rotations, rotation_failed,
                   empty_streak, executed_in_session>>

\* mutant of End: clear_state is called whatever the flags are
EndAlwaysClears ==
    /\ proc = "running"
    /\ cpc = "end"
    /\ cpc' = "completed"
    /\ save_data("final", all_cafes)
    /\ state_file' = NoFile
    /\ resume_data_file' = NoFile
    /\ UNCHANGED <<saves, committed, ckpt>>
    /\ UNCHANGED <<indexVars, threadVars, crawlVars, proc>>
    /\ UNCHANGED <<save_pc, restarts, load_result>>
    /\ UNCHANGED <<loop_i, strategies, resume, search_results, modeVars, quietVars>>

\* after the loop: save_data and clear_state when the crawl completed,
\* save_data and save_state when it was stopped or paused; the process ends
End ==
    /\ proc = "running"
    /\ cpc = "end"
    /\ IF ~should_stop /\ ~is_paused
       THEN /\ cpc' = "completed"
            /\ save_data("final", all_cafes)
            /\ state_file' = NoFile
            /\ resume_data_file' = NoFile
            /\ UNCHANGED <<saves, committed, ckpt>>
            /\ UNCHANGED <<indexVars, threadVars, crawlVars, proc>>
       ELSE /\ cpc' = "interrupted"
            /\ save_data("interrupted", all_cafes)
            /\ SaveStateWhole(Checkpoint, all_cafes)
            /\ proc' = "dead"
            /\ MemoryReset
            /\ UNCHANGED log
    /\ UNCHANGED <<save_pc, restarts, load_result>>
    /\ UNCHANGED <<loop_i, strategies, resume, search_results, modeVars, quietVars>>

\* the positions of full_scrape and of the two mode loops
Interruptible ==
    {"top", "paused", "body", "end",
     "batch_head", "batch_query", "batch_run", "batch_after",
     "multi_start", "multi_head", "multi_rotate", "multi_run"}

\* signal_handler while full_scrape runs: the flag, then save_state
CrawlSignal(signum) ==
    /\ proc = "running"
    /\ cpc \in Interruptible
    /\ saves < MaxSaves
    /\ IF signum = "SIGINT"
       THEN is_paused' = TRUE /\ UNCHANGED should_stop
       ELSE should_stop' = TRUE /\ UNCHANGED is_paused
    /\ SaveStateWhole(Checkpoint, all_cafes)
    /\ UNCHANGED <<indexVars, threadVars, current_strategy_index,
                   consecutive_empty_queries, high_yield_mode, query_performance,
                   proc, save_pc, restarts, load_result, loopVars, modeVars, sideVars>>

\* full_scrape(resume=True) after load_state returned: the start index
StartResumed ==
    /\ proc = "running"
    /\ cpc = "interrupted"
    /\ resume' = (load_result = "true")
    /\ loop_i' = IF load_result = "true" THEN current_strategy_index ELSE 0
    /\ strategies' = search_strategies
    /\ cpc' = "top"
    /\ UNCHANGED <<indexVars, threadVars, crawlVars, diskVars, procVars, ghostVars,
                   search_results, modeVars, sideVars>>

NextCrawl ==
    \/ LoopTop
    \/ \E user_input \in {"r", "q", "s", "eof", "none"} : HandlePause(user_input)
    \/ Body
    \/ End
    \/ \E signum \in {"SIGINT", "SIGTERM"} : CrawlSignal(signum)
    \/ Restart
    \/ LoadState
    \/ StartResumed

SpecCrawl == InitCrawl /\ [][NextCrawl]_vars

-----------------------------------------------------------------------------
(* One crawl process from main to its end, in each processing mode *)

\* --stealth-batch-size, --queries-per-session, --session-duration (minutes)
\* and --stealth-interval (minutes) of the run; the horizon of the clock
BatchSize == 2
MaxQueriesPerSession == 2
SessionDuration == 2
BatchInterval == 1
MaxClock == 3

\* random.uniform(120, 420): the two ends of the range, in seconds
RotationDelays == {120, 420}

\* what the result panel lists for the queries, in three runs: nothing at
\* all; rA for the first query; rA for the first and rC for the third
ModeResults ==
    {[q \in Queries |-> <<>>],
     [q \in Queries |-> IF q = search_strategies[1].query THEN <<rA>> ELSE <<>>],
     [q \in Queries |-> IF q = search_strategies[1].query THEN <<rA>>
                        ELSE IF q = search_strategies[3].query THEN <<rC>> ELSE <<>>]}

\* the checkpoint an earlier, interrupted crawl left behind: its first query
\* had retained rA
OldMemory == LoopBody(FreshRecord, 0, [q \in Queries |-> <<rA>>])

OldStateFile ==
    [st |-> "complete", gen |-> 0,
     data |-> StateJson(CheckpointOf(OldMemory),
                        <<get_hash(rA)>>, <<normalize_name(rA.name)>>, <<coord_tuple(rA)>>)]

OldResumeFile ==
    [st |-> "complete", gen |-> 0, data |-> ResumeJson(OldMemory.all_cafes)]

\* a process has been started; main has not yet read its arguments
InitModes ==
    /\ SideIdle
    /\ FreshMemory
    /\ \/ state_file = NoFile /\ resume_data_file = NoFile
       \/ state_file = OldStateFile /\ resume_data_file = OldResumeFile
    /\ proc = "starting"
    /\ save_pc = "none"
    /\ saves = 0
    /\ restarts = 0
    /\ load_result = "none"
    /\ committed = 0
    /\ ckpt = Checkpoint
    /\ cpc = "none"
    /\ loop_i = 0
    /\ strategies = search_strategies
    /\ resume = FALSE
    /\ search_results \in ModeResults
    /\ pc = [t \in Threads |-> "idle"]
    /\ arg = [t \in Threads |-> rA]
    /\ ret = [t \in Threads |-> FALSE]
    /\ log = <<>>
    /\ chk = [t \in Threads |-> EmptyIndex]
    /\ data_lock = 0
    /\ ModesIdle

\* main: --clear-state clears and returns; otherwise full_scrape is called and
\* either goes to load_state (resume) or calls clear_state (no resume)
ChooseRun(m, r, clear) ==
    /\ proc = "starting"
    /\ IF clear
       THEN /\ state_file' = NoFile
            /\ resume_data_file' = NoFile
            /\ proc' = "exited"
            /\ cpc' = "cleared"
            /\ UNCHANGED <<mode, resume>>
       ELSE /\ mode' = m
            /\ resume' = r
            /\ cpc' = "entry"
            /\ IF r
               THEN proc' = "loading" /\ UNCHANGED diskVars
               ELSE /\ proc' = "running"
                    /\ state_file' = NoFile
                    /\ resume_data_file' = NoFile
    /\ UNCHANGED <<indexVars, threadVars, crawlVars, save_pc, saves, restarts,
                   load_result, ghostVars, loop_i, strategies, search_results>>
    /\ UNCHANGED <<sideVars, batch_num, queries_in_session, session_count,
                   current_session_start, now, driver, rotations, rotation_failed,
                   last_outcome, empty_streak, executed_in_session>>

\* full_scrape after the resume handling: the mode is dispatched; the standard
\* mode sets up the driver and its start index
EnterLoop ==
    /\ proc = "running"
    /\ cpc = "entry"
    /\ resume' = (resume /\ load_result = "true")
    /\ IF mode = "standard"
       THEN /\ cpc' = "top"
            /\ loop_i' = IF resume' THEN current_strategy_index ELSE 0
            /\ driver' = "up"
       ELSE /\ cpc' = IF mode = "batch" THEN "batch_head" ELSE "multi_start"
            /\ loop_i' = 0
            /\ UNCHANGED driver
    /\ UNCHANGED <<indexVars, threadVars, crawlVars, diskVars, procVars, ghostVars,
                   strategies, search_results>>
    /\ UNCHANGED <<sideVars, mode, batch_num, queries_in_session, session_count,
                   current_session_start, now, rotations, rotation_failed,
                   last_outcome, empty_streak, executed_in_session>>

\* one pass of the standard loop whose query fails: search_and_extract
\* catches the error and returns no results ("reported"), or it raises and
\* the except clause of the loop continues ("raised")
BodyFailed(kind) ==
    /\ proc = "running"
    /\ cpc = "body"
    /\ Len(all_cafes) < MaxCafes
    /\ IF kind = "reported"
       THEN \E m \in {LoopBody(Memory, loop_i,
                               [search_results EXCEPT ![strategies[loop_i + 1].query] = <<>>])} :
               /\ current_strategy_index' = m.current_strategy_index
               /\ consecutive_empty_queries' = m.consecutive_empty_queries
               /\ high_yield_mode' = m.high_yield_mode
               /\ query_performance' = m.query_performance
               /\ strategies' = m.strategies
               /\ IF m.brk
                  THEN cpc' = "end" /\ UNCHANGED loop_i /\ NoSave /\ NoData
                  ELSE /\ cpc' = "top"
                       /\ loop_i' = loop_i + 1
                       /\ IF (loop_i + 1) % SaveEvery = 0
                          THEN /\ save_data("progress", m.all_cafes)
                               /\ SaveStateWhole(CheckpointOf(m), m.all_cafes)
                          ELSE NoSave /\ NoData
       ELSE /\ current_strategy_index' = loop_i
            /\ cpc' = "top"
            /\ loop_i' = loop_i + 1
            /\ NoSave
            /\ NoData
            /\ UNCHANGED <<consecutive_empty_queries, high_yield_mode,
                           query_performance, strategies>>
    /\ last_outcome' = kind
    /\ UNCHANGED <<indexVars, threadVars, is_paused, should_stop, proc, save_pc,
                   restarts, load_result, resume, search_results>>
    /\ UNCHANGED <<quietVars, mode, batch_num, queries_in_session, session_count,
                   current_session_start, now, driver, rotations, rotation_failed,
                   empty_streak, executed_in_session>>

\* what one query of a mode loop does to the index: search_and_extract, or
\* nothing when the query failed
ModeQuery(strategy, outcome) ==
    IF outcome = "ok"
    THEN search_and_extract(Memory, strategy.query, strategy.expected_results,
                            search_results)
    ELSE [m |-> Memory, results |-> <<>>]

\* the index, the counters and the ghosts after one query of a mode loop
ModeQueryEffect(found, outcome) ==
    /\ all_cafes' = found.m.all_cafes
    /\ seen_hashes' = found.m.seen_hashes
    /\ seen_names' = found.m.seen_names
    /\ seen_coordinates' = found.m.seen_coordinates
    /\ stats' = found.m.stats
    /\ empty_streak' = IF found.results # <<>> THEN 0 ELSE empty_streak + 1
    /\ last_outcome' = outcome
    /\ executed_in_session' = IF outcome = "raised" THEN executed_in_session
                              ELSE executed_in_session + 1

\* the except clause of full_scrape: save_data("error"), save_state
Abort ==
    /\ cpc' = "aborted"
    /\ save_data("error", all_cafes)
    /\ SaveStateWhole(Checkpoint, all_cafes)

TotalBatches == (Len(strategies) + BatchSize - 1) \div BatchSize

\* process_strategies_in_batches: the head of the loop over the batches
BatchHead ==
    /\ proc = "running"
    /\ cpc = "batch_head"
    /\ IF batch_num >= TotalBatches \/ Len(all_cafes) >= MaxCafes
       THEN /\ cpc' = "completed"
            /\ driver' = IF driver = "up" THEN "closed" ELSE driver
            /\ UNCHANGED loop_i
       ELSE /\ cpc' = "batch_query"
            /\ loop_i' = 0
            /\ UNCHANGED driver
    /\ UNCHANGED <<indexVars, threadVars, crawlVars, diskVars, procVars, ghostVars,
                   strategies, resume, search_results>>
    /\ UNCHANGED <<sideVars, mode, batch_num, queries_in_session, session_count,
                   current_session_start, now, rotations, rotation_failed,
                   last_outcome, empty_streak, executed_in_session>>

BatchStart == batch_num * BatchSize
BatchEnd == Min(BatchStart + BatchSize, Len(strategies))

\* the head of the loop over the strategies of one batch
BatchNext ==
    /\ proc = "running"
    /\ cpc = "batch_query"
    /\ cpc' = IF loop_i >= BatchEnd - BatchStart \/ Len(all_cafes) >= MaxCafes
              THEN "batch_after"
              ELSE "batch_run"
    /\ UNCHANGED <<indexVars, threadVars, crawlVars, diskVars, procVars, ghostVars,
                   loop_i, strategies, resume, search_results, modeVars, sideVars>>

\* one query of a batch
BatchRun(outcome) ==
    /\ proc = "running"
    /\ cpc = "batch_run"
    /\ \E found \in {ModeQuery(strategies[BatchStart + loop_i + 1], outcome)} :
           ModeQueryEffect(found, outcome)
    /\ driver' = IF driver = "none" /\ outcome = "ok" THEN "up" ELSE driver
    /\ loop_i' = loop_i + 1
    /\ cpc' = "batch_query"
    /\ UNCHANGED <<threadVars, crawlVars, diskVars, procVars, ghostVars,
                   strategies, resume, search_results>>
    /\ UNCHANGED <<sideVars, mode, batch_num, queries_in_session, session_count,
                   current_session_start, now, rotations, rotation_failed>>

\* after a batch: save_data("batch_<n>"), then, unless it was the last batch
\* or the target is reached, the interval and the restart of the driver; fail
\* names the call of the restart that raises
BatchAfter(fail) ==
    /\ proc = "running"
    /\ cpc = "batch_after"
    /\ IF batch_num < TotalBatches - 1 /\ Len(all_cafes) < MaxCafes
       THEN /\ fail = "quit" => driver # "none"
            /\ now' = now + BatchInterval
            /\ IF fail = "none"
               THEN /\ driver' = "up"
                    /\ executed_in_session' = 0
                    /\ batch_num' = batch_num + 1
                    /\ cpc' = "batch_head"
                    /\ save_data("batch", all_cafes)
                    /\ NoSave
                    /\ UNCHANGED rotation_failed
               ELSE /\ rotation_failed' = TRUE
                    /\ driver' = IF fail = "setup" /\ driver = "up" THEN "closed" ELSE driver
                    /\ Abort
                    /\ UNCHANGED <<executed_in_session, batch_num>>
       ELSE /\ fail = "none"
            /\ batch_num' = batch_num + 1
            /\ cpc' = "batch_head"
            /\ save_data("batch", all_cafes)
            /\ NoSave
            /\ UNCHANGED <<now, driver, executed_in_session, rotation_failed>>
    /\ UNCHANGED <<indexVars, threadVars, crawlVars, proc, save_pc, restarts,
                   load_result, loop_i, strategies, resume, search_results>>
    /\ UNCHANGED <<quietVars, mode, queries_in_session, session_count, current_session_start,
                   rotations, last_outcome, empty_streak>>

\* mutant of should_rotate_session: the query count is not tested
should_rotate_by_age ==
    now - current_session_start > SessionDuration

\* MultiSessionManager.should_rotate_session
should_rotate_session ==
    \/ now - current_session_start > SessionDuration
    \/ queries_in_session >= MaxQueriesPerSession

\* the head of the loop of process_strategies_with_rotation, and the test of
\* execute_query
MultiHead ==
    /\ proc = "running"
    /\ cpc = "multi_head"
    /\ IF loop_i >= Len(strategies) \/ Len(all_cafes) >= MaxCafes
       THEN /\ cpc' = "completed"
            /\ driver' = IF driver = "up" THEN "closed" ELSE driver
       ELSE /\ cpc' = IF should_rotate_session THEN "multi_rotate" ELSE "multi_run"
            /\ UNCHANGED driver
    /\ UNCHANGED <<indexVars, threadVars, crawlVars, diskVars, procVars, ghostVars,
                   loop_i, strategies, resume, search_results>>
    /\ UNCHANGED <<sideVars, mode, batch_num, queries_in_session, session_count,
                   current_session_start, now, rotations, rotation_failed,
                   last_outcome, empty_streak, executed_in_session>>

\* rotate_session: driver.quit, the delay, setup_driver, the new session; fail
\* names the call that raises. The first call is made outside the try of the
\* loop, the later ones inside it.
RotateSession(fail, delay) ==
    /\ proc = "running"
    /\ cpc \in {"multi_start", "multi_rotate"}
    /\ fail = "quit" => driver # "none"
    /\ delay = 0 <=> ~(session_count > 1)
    /\ IF fail = "quit"
       THEN UNCHANGED <<rotations, now, driver>>
       ELSE /\ rotations' = Append(rotations,
                                   [session |-> session_count + 1,
                                    delay |-> delay,
                                    queries |-> queries_in_session,
                                    age |-> now - current_session_start])
            /\ now' = now + (delay \div 60)
            /\ driver' = IF fail = "none" THEN "up"
                         ELSE IF driver = "up" THEN "closed" ELSE driver
    /\ IF fail = "none"
       THEN /\ current_session_start' = now'
            /\ queries_in_session' = 0
            /\ session_count' = session_count + 1
            /\ executed_in_session' = 0
            /\ cpc' = IF cpc = "multi_start" THEN "multi_head" ELSE "multi_run"
            /\ NoSave
            /\ NoData
            /\ UNCHANGED <<rotation_failed, loop_i>>
       ELSE /\ rotation_failed' = TRUE
            /\ UNCHANGED <<current_session_start, queries_in_session, session_count,
                           executed_in_session>>
            /\ IF cpc = "multi_start"
               THEN Abort /\ UNCHANGED loop_i
               ELSE /\ cpc' = "multi_head"
                    /\ loop_i' = loop_i + 1
                    /\ NoSave
                    /\ NoData
    /\ UNCHANGED <<indexVars, threadVars, crawlVars, proc, save_pc, restarts,
                   load_result, strategies, resume, search_results>>
    /\ UNCHANGED <<quietVars, mode, batch_num, last_outcome, empty_streak>>

\* process_strategies_with_rotation: "if (i + 1) % 10 == 0"
MultiSaveEvery == 10

\* execute_query after the test: search_and_extract, queries_in_session += 1;
\* then, unless the query raised, the periodic save_data("progress")
MultiRun(outcome) ==
    /\ proc = "running"
    /\ cpc = "multi_run"
    /\ \E found \in {ModeQuery(strategies[loop_i + 1], outcome)} :
           /\ ModeQueryEffect(found, outcome)
           /\ IF outcome # "raised" /\ (loop_i + 1) % MultiSaveEvery = 0
              THEN save_data("progress", found.m.all_cafes)
              ELSE NoData
    /\ queries_in_session' = IF outcome = "raised" THEN queries_in_session
                             ELSE queries_in_session + 1
    /\ loop_i' = loop_i + 1
    /\ cpc' = "multi_head"
    /\ UNCHANGED <<threadVars, crawlVars, diskVars, procVars, ghostVars,
                   strategies, resume, search_results>>
    /\ UNCHANGED <<quietVars, mode, batch_num, session_count, current_session_start, now,
                   driver, rotations, rotation_failed>>

\* a minute passes while a multi-session crawl runs
Tick ==
    /\ proc = "running"
    /\ cpc \in {"multi_head", "multi_rotate", "multi_run"}
    /\ now < MaxClock
    /\ now' = now + 1
    /\ UNCHANGED <<indexVars, threadVars, crawlVars, diskVars, procVars, ghostVars,
                   loopVars>>
    /\ UNCHANGED <<sideVars, mode, batch_num, queries_in_session, session_count,
                   current_session_start, driver, rotations, rotation_failed,
                   last_outcome, empty_streak, executed_in_session>>

Outcomes == {"ok", "reported", "raised"}
Failures == {"none", "quit", "setup"}

NextModes ==
    \/ \E m \in {"standard", "batch", "multi"}, r \in BOOLEAN, clear \in BOOLEAN :
           ChooseRun(m, r, clear)
    \/ LoadState
    \/ EnterLoop
    \/ LoopTop
    \/ \E user_input \in {"r", "q", "s", "eof", "none"} : HandlePause(user_input)
    \/ Body
    \/ \E kind \in {"reported", "raised"} : BodyFailed(kind)
    \/ End
    \/ \E signum \in {"SIGINT", "SIGTERM"} : CrawlSignal(signum)
    \/ BatchHead
    \/ BatchNext
    \/ \E outcome \in Outcomes : BatchRun(outcome)
    \/ \E fail \in Failures : BatchAfter(fail)
    \/ MultiHead
    \/ \E fail \in Failures, delay \in RotationDelays \cup {0} : RotateSession(fail, delay)
    \/ \E outcome \in Outcomes : MultiRun(outcome)
    \/ Tick

SpecModes == InitModes /\ [][NextModes]_vars

-----------------------------------------------------------------------------
(* AntiDetectionManager: rate_limit and the long breaks.  Times are in half *)
(* seconds, so that 1.5 s and 2.5 s are integers.                           *)

\* the number of rate_limit calls of a run
MaxActions == 19

\* rate_limit: get_human_delay(5.0)
BaseDelay == 10
\* get_human_delay: max(1.5, delay)
MinimumDelay == 3

Max(a, b) == IF a > b THEN a ELSE b

\* get_human_delay, for one draw of the jitter and of the extended pause
get_human_delay(base_delay, jitter, extended) ==
    Max(MinimumDelay, base_delay + jitter + extended)

\* the delays get_human_delay can return: random.uniform(-variation, variation)
\* with variation = base_delay * 0.5 is one of its two ends; with
\* random.random() < 0.1, random.uniform(8, 20) is added, here its upper end
HumanDelays(base_delay) ==
    {get_human_delay(base_delay, j, e) :
         j \in {-(base_delay \div 2), base_delay \div 2}, e \in {0, 40}}

\* should_take_break, for one draw k of random.randint(12, 18)
should_take_break(k) == anti_session_count > 0 /\ anti_session_count % k = 0

\* a process that has built its AntiDetectionManager
InitRate ==
    /\ FreshMemory
    /\ state_file = NoFile
    /\ resume_data_file = NoFile
    /\ proc = "running"
    /\ save_pc = "none"
    /\ saves = 0
    /\ restarts = 0
    /\ load_result = "none"
    /\ committed = 0
    /\ ckpt = Checkpoint
    /\ LoopIdle
    /\ ModesIdle
    /\ pc = [t \in Threads |-> "idle"]
    /\ arg = [t \in Threads |-> rA]
    /\ ret = [t \in Threads |-> FALSE]
    /\ log = <<>>
    /\ chk = [t \in Threads |-> EmptyIndex]
    /\ data_lock = 0
    /\ max_consecutive_empty = MaxEmptyQueries
    /\ ExtraIdle
    /\ anti_session_count = 0
    /\ last_action_time = 0
    /\ rate_clock = 1
    /\ slept = 0
    /\ since_break = 0
    /\ last_gap = 0
    /\ generated = <<>>
    /\ CoordIdle

\* rate_limit, from its first line to its return
RateLimit(min_delay, k, break_time) ==
    /\ anti_session_count < MaxActions
    /\ LET current_time == rate_clock
           elapsed == current_time - last_action_time
           sleep_time == IF last_action_time > 0 /\ elapsed < min_delay
                         THEN min_delay - elapsed
                         ELSE 0
           takes == should_take_break(k)
           pause == IF takes THEN break_time ELSE 0
       IN  /\ slept' = sleep_time
           /\ rate_clock' = rate_clock + sleep_time + pause
           /\ last_action_time' = rate_clock + sleep_time + pause
           /\ anti_session_count' = anti_session_count + 1
           /\ since_break' = IF takes THEN 1 ELSE since_break + 1
           /\ last_gap' = IF takes THEN since_break ELSE last_gap
    /\ UNCHANGED <<indexVars, threadVars, crawlVars, diskVars, procVars, ghostVars,
                   loopVars, modeVars, max_consecutive_empty, area_filter,
                   output_file, extraction, fleetVars, generated, coordVars>>

\* the caller works between two calls of rate_limit
Work(e) ==
    /\ anti_session_count < MaxActions
    /\ rate_clock = Max(last_action_time, 1)
    /\ rate_clock' = rate_clock + e
    /\ UNCHANGED <<anti_session_count, last_action_time, slept, since_break, last_gap>>
    /\ UNCHANGED <<indexVars, threadVars, crawlVars, diskVars, procVars, ghostVars,
                   loopVars, modeVars, max_consecutive_empty, area_filter,
                   output_file, extraction, fleetVars, generated, coordVars>>

\* k is random.randint(12, 18); the break is the lower end of
\* random.uniform(90, 360); the caller works for 5 seconds between two calls
NextRate ==
    \/ \E min_delay \in HumanDelays(BaseDelay), k \in 12..18 :
           RateLimit(min_delay, k, 180)
    \/ Work(10)

SpecRate == InitRate /\ [][NextRate]_vars

-----------------------------------------------------------------------------
(* _generate_search_strategies: the queries, their classification, the sort *)

\* the number of calls of the generator in one run of the model
MaxInvocations == 3

\* the order of the characters of the queries by code point
CodePoints == <<" ">> \o UpperChars \o LowerChars
\* the place of each character in CodePoints
OrdOf ==
    (" " :> 1) @@ ("A" :> 2) @@ ("B" :> 3) @@ ("C" :> 4) @@ ("D" :> 5) @@
    ("E" :> 6) @@ ("F" :> 7) @@ ("G" :> 8) @@ ("H" :> 9) @@ ("I" :> 10) @@
    ("J" :> 11) @@ ("K" :> 12) @@ ("L" :> 13) @@ ("M" :> 14) @@
    ("N" :> 15) @@ ("O" :> 16) @@ ("P" :> 17) @@ ("Q" :> 18) @@
    ("R" :> 19) @@ ("S" :> 20) @@ ("T" :> 21) @@ ("U" :> 22) @@
    ("V" :> 23) @@ ("W" :> 24) @@ ("X" :> 25) @@ ("Y" :> 26) @@
    ("Z" :> 27) @@ ("a" :> 28) @@ ("b" :> 29) @@ ("c" :> 30) @@
    ("d" :> 31) @@ ("e" :> 32) @@ ("f" :> 33) @@ ("g" :> 34) @@
    ("h" :> 35) @@ ("i" :> 36) @@ ("j" :> 37) @@ ("k" :> 38) @@
    ("l" :> 39) @@ ("m" :> 40) @@ ("n" :> 41) @@ ("o" :> 42) @@
    ("p" :> 43) @@ ("q" :> 44) @@ ("r" :> 45) @@ ("s" :> 46) @@
    ("t" :> 47) @@ ("u" :> 48) @@ ("v" :> 49) @@ ("w" :> 50) @@
    ("x" :> 51) @@ ("y" :> 52) @@ ("z" :> 53)
Ord(c) == OrdOf[c]

\* a < b on str: the first place where they differ decides; a proper prefix
\* is less
StrLess(a, b) ==
    \/ \E i \in 1..Min(Len(a), Len(b)) :
           /\ a[i] # b[i]
           /\ Ord(a[i]) < Ord(b[i])
           /\ \A j \in 1..(i - 1) : a[j] = b[j]
    \/ Len(a) < Len(b) /\ \A j \in 1..Len(a) : a[j] = b[j]

\* the list that holds x at place p for every <<x, p>> of placed
Arranged(placed) ==
    SubSeq([p \in 1..Cardinality(placed) |-> (CHOOSE r \in placed : r[2] = p)[1]],
           1, Cardinality(placed))

\* sorted(all_queries): each string behind the strings that are less
SortedQueries(S) ==
    Arranged({<<x, 1 + Cardinality({y \in S : StrLess(y, x)})>> : x \in S})

\* p in s
Contains(s, p) ==
    \E i \in 0..(Len(s) - Len(p)) : \A j \in 1..Len(p) : s[i + j] = p[j]

\* any(term in q.lower() for term in terms)
AnyInLower(terms, lowered) == \E k \in DOMAIN terms : Contains(lowered, terms[k])
AnyIn(terms, q) == AnyInLower(terms, StrLower(q))

\* len(q.split())
WordCount(q) ==
    Cardinality({i \in DOMAIN q : ~IsSpace(q[i]) /\ (i = 1 \/ IsSpace(q[i - 1]))})

\* f"{a} {b} ... ".strip()
RECURSIVE Spaced(_)
Spaced(parts) ==
    IF Len(parts) = 1 THEN parts[1]
    ELSE parts[1] \o <<" ">> \o Spaced(Tail(parts))
Query(parts) == StrStrip(Spaced(parts))

\* the sources of random numbers the model draws from: every draw the least
\* value, every draw the greatest, or draws that go round the values
Streams == {"low", "high", "round", "shifted"}

\* list[random.randint(0, len(list) - 1)], for the draw made at position pos
Drawn(stream, pos, list) ==
    list[IF stream = "low" THEN 1
         ELSE IF stream = "high" THEN Len(list)
         ELSE IF stream = "round" THEN (pos % Len(list)) + 1
         ELSE ((pos + 1) % Len(list)) + 1]

\* a corpus of cafe_scraper.py: the first terms of each of its lists that the
\* classification tells apart
ScraperCorpus ==
    [base_keywords |-> << <<"c","a","f","e">>,
                          <<"k","o","p","i"," ","t","r","a","d","i","s","i","o","n","a","l">> >>,
     contexts |-> << <<"d","i">>, <<"h","i","t","s">> >>,
     regions |-> << <<"s","l","e","m","a","n">>, <<"D","I","Y">> >>,
     sub_areas |-> << <<"d","e","p","o","k">>, <<"t","u","r","i">> >>,
     landmarks |-> << <<"m","o","n","j","a","l","i">> >>,
     universities_jogja |-> << <<"u","g","m">>, <<"i","s","i">> >>,
     essential_menu |-> << <<"l","a","t","t","e">> >>,
     kata_tempat |-> << <<"d","e","k","a","t">>, <<"d","i">> >>,
     awalan |-> << <<"j","u","a","l">>, <<"c","a","f","e">> >>]

\* a corpus of _generate_search_strategies.py, taken from its lists
StandaloneCorpus ==
    [base_keywords |-> << <<"c","a","f","e">> >>,
     contexts |-> << <<>>, <<"h","i","t","s">> >>,
     regions |-> << <<"s","l","e","m","a","n">> >>,
     sub_areas |-> << <<"d","e","p","o","k">> >>,
     landmarks |-> << <<"m","o","n","j","a","l","i">>, <<"u","g","m">> >>]

\* cafe_scraper.py: the set all_queries
all_queries(c, stream) ==
    LET kw == c.base_keywords
        kt == c.kata_tempat
    IN  {Query(<<kw[k], c.contexts[x], c.regions[r]>>) :
             k \in DOMAIN kw, x \in DOMAIN c.contexts, r \in DOMAIN c.regions}
        \cup {Query(<<Drawn(stream, a, kw), Drawn(stream, a + 1, kt), c.sub_areas[a]>>) :
                  a \in DOMAIN c.sub_areas}
        \cup {Query(<<kw[k], Drawn(stream, k + l, kt), c.landmarks[l]>>) :
                  k \in DOMAIN kw, l \in DOMAIN c.landmarks}
        \cup {Query(<<kw[k], c.contexts[x], Drawn(stream, k + x + u, kt),
                      c.universities_jogja[u], <<"j","o","g","j","a">> >>) :
                  k \in DOMAIN kw, x \in DOMAIN c.contexts,
                  u \in DOMAIN c.universities_jogja}
        \cup {Query(<<Drawn(stream, m + r, c.awalan), c.essential_menu[m],
                      Drawn(stream, m + r + 1, kt), c.regions[r]>>) :
                  m \in DOMAIN c.essential_menu, r \in DOMAIN c.regions}

Strategy(q, e, p) == [query |-> q, expected_results |-> e, priority |-> p]

DEKAT == <<"d","e","k","a","t">>

\* cafe_scraper.py: the entries appended for one query: the "if" on the
\* sub-areas, then the if/elif chain
classify(c, q) ==
    (IF AnyIn(c.sub_areas, q) THEN <<Strategy(q, 100, 0)>> ELSE <<>>)
    \o << IF AnyIn(c.regions, q) THEN Strategy(q, 100, 0)
          ELSE IF AnyIn(c.universities_jogja, q) THEN Strategy(q, 100, 1)
          ELSE IF AnyIn(c.essential_menu, q) THEN Strategy(q, 100, 2)
          ELSE IF ~Contains(StrLower(q), DEKAT) /\ WordCount(q) <= 10
               THEN Strategy(q, 100, 3)
          ELSE IF Contains(StrLower(q), DEKAT) /\ WordCount(q) <= 10
               THEN Strategy(q, 100, 4)
          ELSE Strategy(q, 100, 5) >>

\* _generate_search_strategies.py: the set all_queries
all_queries_standalone(c) ==
    LET kw == c.base_keywords
    IN  {Query(<<kw[k], c.contexts[x], c.regions[r]>>) :
             k \in DOMAIN kw, x \in DOMAIN c.contexts, r \in DOMAIN c.regions}
        \cup {Query(<<kw[k], c.contexts[x], c.sub_areas[a]>>) :
                  k \in DOMAIN kw, x \in DOMAIN c.contexts, a \in DOMAIN c.sub_areas}
        \cup {Query(<<kw[k], c.contexts[x], DEKAT, c.landmarks[l]>>) :
                  k \in DOMAIN kw, x \in DOMAIN c.contexts, l \in DOMAIN c.landmarks}

\* _generate_search_strategies.py: the if/elif chain, which has no else
classify_standalone(c, q) ==
    IF AnyIn(c.landmarks, q) THEN <<Strategy(q, 100, 0)>>
    ELSE IF AnyIn(c.sub_areas, q) THEN <<Strategy(q, 80, 1)>>
    ELSE IF ~Contains(StrLower(q), DEKAT) /\ WordCount(q) <= 10
         THEN <<Strategy(q, 60, 1)>>
    ELSE IF Contains(StrLower(q), DEKAT) /\ WordCount(q) <= 10
         THEN <<Strategy(q, 40, 2)>>
    ELSE <<>>

\* the key of strategies.sort: (priority, -expected_results), compared as tuples
KeyLess(a, b) ==
    \/ a.priority < b.priority
    \/ a.priority = b.priority /\ -a.expected_results < -b.expected_results

\* list.sort(key=...) is stable: entry j comes before entry k when its key is
\* less, or equal with j before k in the list
Before(list, j, k) ==
    \/ KeyLess(list[j], list[k])
    \/ j < k /\ ~KeyLess(list[k], list[j])

\* the indices of the list in the order of the sorted list
SortedIndices(list) ==
    Arranged({<<k, 1 + Cardinality({j \in DOMAIN list : j # k /\ Before(list, j, k)})>> :
                  k \in DOMAIN list})

Taken(list, indices) == SubSeq([p \in DOMAIN indices |-> list[indices[p]]], 1, Len(indices))

Sort(list) == Taken(list, SortedIndices(list))

\* mutant of sort_strategies: the list is returned as it was built
unsorted_strategies(list) == list

sort_strategies(list) == Sort(list)

\* the loop "for q in sorted(all_queries)" of cafe_scraper.py
RECURSIVE Classified(_, _)
Classified(c, qs) ==
    IF qs = <<>> THEN <<>>
    ELSE IF Len(qs) = 1 THEN classify(c, qs[1])
    ELSE Classified(c, SubSeq(qs, 1, Len(qs) \div 2))
         \o Classified(c, SubSeq(qs, (Len(qs) \div 2) + 1, Len(qs)))

\* the loop "for q in sorted(all_queries)" of _generate_search_strategies.py
RECURSIVE ClassifiedStandalone(_, _)
ClassifiedStandalone(c, qs) ==
    IF qs = <<>> THEN <<>>
    ELSE IF Len(qs) = 1 THEN classify_standalone(c, qs[1])
    ELSE ClassifiedStandalone(c, SubSeq(qs, 1, Len(qs) \div 2))
         \o ClassifiedStandalone(c, SubSeq(qs, (Len(qs) \div 2) + 1, Len(qs)))

\* UltimateCafeScraper._generate_search_strategies
generate_search_strategies(c, stream) ==
    sort_strategies(Classified(c, SortedQueries(all_queries(c, stream))))

\* _generate_search_strategies of _generate_search_strategies.py
generate_search_strategies_standalone(c) ==
    sort_strategies(ClassifiedStandalone(c, SortedQueries(all_queries_standalone(c))))

\* what each generator returns on the corpus of its file, per stream
Generators == {"cafe_scraper", "standalone"}
Returned ==
    [g \in Generators, stream \in Streams |->
        IF g = "cafe_scraper"
        THEN generate_search_strategies(ScraperCorpus, stream)
        ELSE generate_search_strategies_standalone(StandaloneCorpus)]

\* nothing has been generated
InitGen ==
    /\ FreshMemory
    /\ state_file = NoFile
    /\ resume_data_file = NoFile
    /\ proc = "running"
    /\ save_pc = "none"
    /\ saves = 0
    /\ restarts = 0
    /\ load_result = "none"
    /\ committed = 0
    /\ ckpt = Checkpoint
    /\ LoopIdle
    /\ ModesIdle
    /\ pc = [t \in Threads |-> "idle"]
    /\ arg = [t \in Threads |-> rA]
    /\ ret = [t \in Threads |-> FALSE]
    /\ log = <<>>
    /\ chk = [t \in Threads |-> EmptyIndex]
    /\ data_lock = 0
    /\ SideIdle

\* one call of a generator
Generate(g, stream) ==
    /\ Len(generated) < MaxInvocations
    /\ generated' = Append(generated,
                           [generator |-> g, stream |-> stream,
                            strategies |-> Returned[g, stream]])
    /\ UNCHANGED <<indexVars, threadVars, crawlVars, diskVars, procVars, ghostVars,
                   loopVars, modeVars, max_consecutive_empty, area_filter,
                   output_file, extraction, fleetVars, rateVars, coordVars>>

\* the caller sorts the last list again, with the key of the generator
SortAgain ==
    /\ generated # <<>>
    /\ generated' = [generated EXCEPT ![Len(generated)].strategies = sort_strategies(@)]
    /\ UNCHANGED <<indexVars, threadVars, crawlVars, diskVars, procVars, ghostVars,
                   loopVars, modeVars, max_consecutive_empty, area_filter,
                   output_file, extraction, fleetVars, rateVars, coordVars>>

NextGen ==
    \/ \E g \in Generators, stream \in Streams : Generate(g, stream)
    \/ SortAgain

SpecGen == InitGen /\ [][NextGen]_vars

-----------------------------------------------------------------------------
(* full_scrape on a list long enough for the switch to high-yield mode *)

\* the default of --max-empty-queries
DefaultMaxEmpty == 100

\* a corpus of cafe_scraper.py with more than HighYieldAfter strategies
OrderCorpus ==
    [base_keywords |-> << <<"c","a","f","e">>, <<"k","o","p","i">> >>,
     contexts |-> << <<"d","i">>, <<"h","i","t","s">>, <<"m","u","r","a","h">> >>,
     regions |-> << <<"s","l","e","m","a","n">>, <<"b","a","n","t","u","l">>,
                    <<"D","I","Y">> >>,
     sub_areas |-> << <<"d","e","p","o","k">>, <<"t","u","r","i">> >>,
     landmarks |-> << <<"m","o","n","j","a","l","i">>,
                      <<"k","a","l","i","u","r","a","n","g">>,
                      <<"t","u","g","u"," ","j","o","g","j","a">> >>,
     universities_jogja |-> << <<"u","g","m">>, <<"u","i","i">>, <<"u","p","n">>, <<"u","n","y">> >>,
     essential_menu |-> << <<"l","a","t","t","e">>, <<"m","o","c","h","a">> >>,
     kata_tempat |-> << <<"d","e","k","a","t">>, <<"d","i">> >>,
     awalan |-> << <<"j","u","a","l">>, <<"c","a","f","e">> >>]

\* the lists the generator returns on OrderCorpus
OrderReturned ==
    [low |-> generate_search_strategies(OrderCorpus, "low"),
     high |-> generate_search_strategies(OrderCorpus, "high")]

\* the query strings of the lists a corpus returns
QueriesOf(returned) ==
    UNION {{returned[stream][k].query : k \in DOMAIN returned[stream]} :
               stream \in DOMAIN returned}

OrderQueries == QueriesOf(OrderReturned)

\* full_scrape: [s for s in strategies if area_filter.lower() in s['query'].lower()]
AreaFiltered(list, area) ==
    IF area = <<>> THEN list
    ELSE SelectSeq(list, LAMBDA st : Contains(StrLower(st.query), StrLower(area)))

\* --area: none, or one of two areas
OrderAreas == {<<>>, <<"j","o","g","j","a">>}

\* full_scrape(resume=False) in standard mode, after setup_driver: the list of
\* __init__, filtered or not; the second entry of generated is the list the
\* generator will return at the switch; the panel lists nothing for any query
\* but the first, for which it lists one of firsts
InitFullScrape(returned, areas, firsts) ==
    /\ FreshMemory
    /\ state_file = NoFile
    /\ resume_data_file = NoFile
    /\ proc = "running"
    /\ save_pc = "none"
    /\ saves = 0
    /\ restarts = 0
    /\ load_result = "none"
    /\ committed = 0
    /\ ckpt = Checkpoint
    /\ cpc = "top"
    /\ loop_i = 0
    /\ \E again \in DOMAIN returned :
           generated = <<[generator |-> "cafe_scraper", stream |-> "low",
                          strategies |-> returned.low],
                         [generator |-> "cafe_scraper", stream |-> again,
                          strategies |-> returned[again]]>>
    /\ area_filter \in areas
    /\ strategies = AreaFiltered(generated[1].strategies, area_filter)
    /\ resume = FALSE
    /\ \E first \in firsts :
           search_results =
               [q \in QueriesOf(returned) |-> IF q = strategies[1].query THEN first ELSE <<>>]
    /\ pc = [t \in Threads |-> "idle"]
    /\ arg = [t \in Threads |-> rA]
    /\ ret = [t \in Threads |-> FALSE]
    /\ log = <<>>
    /\ chk = [t \in Threads |-> EmptyIndex]
    /\ data_lock = 0
    /\ ModesIdle
    /\ max_consecutive_empty = DefaultMaxEmpty
    /\ output_file = NoOutput
    /\ extraction = ExtractionIdle
    /\ touched = <<>>
    /\ query_distribution = <<>>
    /\ RateIdle
    /\ CoordIdle

InitOrder == InitFullScrape(OrderReturned, OrderAreas, {<<>>, <<rA>>})

NextOrder ==
    \/ LoopTop
    \/ Body
    \/ End

SpecOrder == InitOrder /\ [][NextOrder]_vars

-----------------------------------------------------------------------------
(* full_scrape with --area on a list whose filtered part is long enough for
   the switch to high-yield mode *)

\* OrderCorpus with more universities: more than HighYieldAfter queries end
\* in "jogja", the queries of the regions and sub-areas do not
AreaCorpus ==
    [OrderCorpus EXCEPT
        !.universities_jogja = @ \o << <<"u","i","n">>, <<"u","s","d">>, <<"u","d","b">>,
                                       <<"u","t","y">>, <<"u","m","y">> >>]

\* the lists the generator returns on AreaCorpus
AreaReturned ==
    [low |-> generate_search_strategies(AreaCorpus, "low"),
     high |-> generate_search_strategies(AreaCorpus, "high")]

\* --area jogja, typed in either case
AreaChoices == {<<"j","o","g","j","a">>, <<"J","o","g","j","a">>}

InitArea == InitFullScrape(AreaReturned, AreaChoices, {<<>>, <<rA>>})

SpecArea == InitArea /\ [][NextOrder]_vars

-----------------------------------------------------------------------------
(* multi_instance_coordinator.py: monitor, collect, merge, save *)

\* range(self.num_instances)
Instances == 0 .. (NumInstances - 1)

\* what os.walk and open find in an instance's directory when the coordinator
\* collects: no .json file, a .json file that cannot be opened, a .json file
\* of zero bytes, or the file save_data wrote, with its 'cafes'
NoJson == [kind |-> "missing", cafes |-> <<>>]
Unreadable == [kind |-> "unreadable", cafes |-> <<>>]
ZeroBytes == [kind |-> "empty", cafes |-> <<>>]
Json(cafes) == [kind |-> "json", cafes |-> cafes]

FileChoices == {NoJson, Unreadable, ZeroBytes, Json(<<rA, rC>>), Json(<<rB, rA>>)}

Numeral(n) ==
    LET digit == <<"0","1","2","3","4","5","6","7","8","9">>
    IN  <<digit[(n \div 100) + 1], digit[((n \div 10) % 10) + 1], digit[(n % 10) + 1]>>

\* the cafes number first .. last of a street of cafes a millidegree apart
Batch(first, last) ==
    [k \in 1 .. (last - first + 1) |->
        [name |-> <<"W","a","r","u","n","g"," ">> \o Numeral(first + k - 1),
         lat |-> -77000000 - 10000 * (first + k - 1),
         lon |-> 1103000000]]

\* instance 0 wrote 50 records, instance 1 wrote 60, the first 10 of which are
\* the last 10 of instance 0; further instances wrote nothing
MergeScenario ==
    [i \in Instances |->
        IF i = 0 THEN Json(Batch(1, 50))
        ELSE IF i = 1 THEN Json(Batch(41, 100))
        ELSE NoJson]

\* run_coordinated_scraping has called monitor_instances, which has submitted
\* one launch_instance per instance to the executor
InitCoord ==
    /\ FreshMemory
    /\ state_file = NoFile
    /\ resume_data_file = NoFile
    /\ proc = "running"
    /\ save_pc = "none"
    /\ saves = 0
    /\ restarts = 0
    /\ load_result = "none"
    /\ committed = 0
    /\ ckpt = Checkpoint
    /\ LoopIdle
    /\ ModesIdle
    /\ pc = [t \in Threads |-> "idle"]
    /\ arg = [t \in Threads |-> rA]
    /\ ret = [t \in Threads |-> FALSE]
    /\ log = <<>>
    /\ chk = [t \in Threads |-> EmptyIndex]
    /\ data_lock = 0
    /\ max_consecutive_empty = MaxEmptyQueries
    /\ ExtraIdle
    /\ RateIdle
    /\ generated = <<>>
    /\ instance_files \in [Instances -> FileChoices] \cup {MergeScenario}
    /\ instance_state = [i \in Instances |-> "pending"]
    /\ instance_processes = <<>>
    /\ instance_results = <<>>
    /\ all_results = <<>>
    /\ duplicates_removed = 0
    /\ coord_pc = "monitor"
    /\ final_report = <<>>

\* launch_instance in its executor thread: Popen succeeds
launch_instance(i) ==
    /\ instance_state[i] = "pending"
    /\ instance_state' = [instance_state EXCEPT ![i] = "running"]
    /\ instance_processes' = Append(instance_processes, i)
    /\ UNCHANGED <<instance_files, instance_results, all_results, duplicates_removed,
                   coord_pc, final_report>>
    /\ UNCHANGED <<indexVars, threadVars, crawlVars, diskVars, procVars, ghostVars,
                   loopVars, modeVars, max_consecutive_empty, area_filter,
                   output_file, extraction, fleetVars, rateVars, generated>>

\* launch_instance in its executor thread: Popen raises; the exception stays in
\* the future, which monitor_instances never looks at
launch_fails(i) ==
    /\ instance_state[i] = "pending"
    /\ instance_state' = [instance_state EXCEPT ![i] = "failed"]
    /\ UNCHANGED <<instance_files, instance_processes, instance_results, all_results,
                   duplicates_removed, coord_pc, final_report>>
    /\ UNCHANGED <<indexVars, threadVars, crawlVars, diskVars, procVars, ghostVars,
                   loopVars, modeVars, max_consecutive_empty, area_filter,
                   output_file, extraction, fleetVars, rateVars, generated>>

\* the child process ends: by itself ("exited") or killed by a fault ("crashed")
InstanceEnds(i, how) ==
    /\ instance_state[i] = "running"
    /\ instance_state' = [instance_state EXCEPT ![i] = how]
    /\ UNCHANGED <<instance_files, instance_processes, instance_results, all_results,
                   duplicates_removed, coord_pc, final_report>>
    /\ UNCHANGED <<indexVars, threadVars, crawlVars, diskVars, procVars, ghostVars,
                   loopVars, modeVars, max_consecutive_empty, area_filter,
                   output_file, extraction, fleetVars, rateVars, generated>>

\* process.poll() is not None
Finished(i) == instance_state[i] \in {"exited", "crashed"}

\* instance_id in self.instance_results
Collected(results, i) == \E k \in DOMAIN results : results[k].instance_id = i

\* collect_instance_results: the dict, in insertion order, with the entry of i
collect_instance_results(results, i) ==
    Append(results,
           [instance_id |-> i,
            cafes |-> IF instance_files[i].kind = "json" THEN instance_files[i].cafes
                      ELSE <<>>])

RECURSIVE CollectEach(_, _)
CollectEach(results, ids) ==
    IF ids = <<>> THEN results
    ELSE IF Finished(Head(ids)) /\ ~ Collected(results, Head(ids))
         THEN CollectEach(collect_instance_results(results, Head(ids)), Tail(ids))
         ELSE CollectEach(results, Tail(ids))

\* one round of the while loop of monitor_instances, from the sleep to the
\* test of the loop; the loop is left when completed_instances, the number of
\* collected instances, has reached num_instances
MonitorRound ==
    /\ coord_pc = "monitor"
    /\ instance_results' = CollectEach(instance_results, instance_processes)
    /\ coord_pc' = IF Len(instance_results') < NumInstances THEN "monitor" ELSE "merge"
    /\ UNCHANGED <<instance_files, instance_state, instance_processes, all_results,
                   duplicates_removed, final_report>>
    /\ UNCHANGED <<indexVars, threadVars, crawlVars, diskVars, procVars, ghostVars,
                   loopVars, modeVars, max_consecutive_empty, area_filter,
                   output_file, extraction, fleetVars, rateVars, generated>>

\* the cafes of all instances in the order of the two for loops, each with the
\* instance it comes from
RECURSIVE Loaded(_)
Loaded(results) ==
    IF results = <<>> THEN <<>>
    ELSE [k \in DOMAIN Head(results).cafes |->
             [cafe |-> Head(results).cafes[k],
              source_instance |-> Head(results).instance_id]]
         \o Loaded(Tail(results))

\* the loop of merge_and_deduplicate_results over the loaded cafes: a cafe is
\* appended when its hash is not in seen_hashes, which by then holds the hash
\* of every cafe before it, and counted as a duplicate otherwise
MergeLoop(loaded) ==
    LET cafe_hash == [k \in DOMAIN loaded |-> get_hash(loaded[k].cafe)]
        numbered == [k \in DOMAIN loaded |-> [at |-> k, entry |-> loaded[k]]]
        unseen == SelectSeq(numbered,
                            LAMBDA n : \A j \in 1 .. (n.at - 1) :
                                           cafe_hash[j] # cafe_hash[n.at])
    IN  [all_cafes |-> [k \in DOMAIN unseen |-> unseen[k].entry],
         duplicates_removed |-> Len(loaded) - Len(unseen)]

\* a merge that counts no duplicate
merge_without_count(results) ==
    [MergeLoop(Loaded(results)) EXCEPT !.duplicates_removed = 0]

\* merge_and_deduplicate_results, up to "self.all_results = all_cafes"
merge_and_deduplicate_results(results) == MergeLoop(Loaded(results))

\* merge_and_deduplicate_results; the last log line divides by the number of
\* loaded records, and run_coordinated_scraping catches what it raises
Merge ==
    /\ coord_pc = "merge"
    /\ \E m \in {merge_and_deduplicate_results(instance_results)} :
           /\ all_results' = m.all_cafes
           /\ duplicates_removed' = m.duplicates_removed
           /\ coord_pc' = IF Len(m.all_cafes) + m.duplicates_removed = 0
                          THEN "raised" ELSE "save"
    /\ UNCHANGED <<instance_files, instance_state, instance_processes, instance_results,
                   final_report>>
    /\ UNCHANGED <<indexVars, threadVars, crawlVars, diskVars, procVars, ghostVars,
                   loopVars, modeVars, max_consecutive_empty, area_filter,
                   output_file, extraction, fleetVars, rateVars, generated>>

RECURSIVE TotalLoaded(_)
TotalLoaded(results) ==
    IF results = <<>> THEN 0 ELSE Len(Head(results).cafes) + TotalLoaded(Tail(results))

\* the metadata save_final_results writes
Metadata ==
    [total_cafes |-> Len(all_results),
     instances_completed |-> Len(instance_results),
     total_duplicates_removed |-> TotalLoaded(instance_results) - Len(all_results),
     instance_contributions |->
         [k \in DOMAIN instance_results |->
             [instance_id |-> instance_results[k].instance_id,
              count |-> Len(instance_results[k].cafes)]]]

\* save_final_results
Save ==
    /\ coord_pc = "save"
    /\ final_report' = IF all_results = <<>> THEN final_report
                       ELSE <<[metadata |-> Metadata, cafes |-> all_results]>>
    /\ coord_pc' = "done"
    /\ UNCHANGED <<instance_files, instance_state, instance_processes, instance_results,
                   all_results, duplicates_removed>>
    /\ UNCHANGED <<indexVars, threadVars, crawlVars, diskVars, procVars, ghostVars,
                   loopVars, modeVars, max_consecutive_empty, area_filter,
                   output_file, extraction, fleetVars, rateVars, generated>>

NextCoord ==
    \/ \E i \in Instances : launch_instance(i)
    \/ \E i \in Instances : launch_fails(i)
    \/ \E i \in Instances, how \in {"exited", "crashed"} : InstanceEnds(i, how)
    \/ MonitorRound
    \/ Merge
    \/ Save

SpecCoord == InitCoord /\ [][NextCoord]_vars

\* the executor runs every submitted launch, every child process ends, and the
\* coordinator's own thread keeps running
CoordFairness ==
    /\ \A i \in Instances : WF_vars(launch_instance(i) \/ launch_fails(i))
    /\ \A i \in Instances :
           WF_vars(\E how \in {"exited", "crashed"} : InstanceEnds(i, how))
    /\ WF_vars(MonitorRound)
    /\ WF_vars(Merge)
    /\ WF_vars(Save)

\* monitor_instances over the small output files
InitMonitor == InitCoord /\ instance_files \in [Instances -> FileChoices]

SpecCoordFair == InitMonitor /\ [][NextCoord]_vars /\ CoordFairness

-----------------------------------------------------------------------------
(* Claims about the checkpoint store *)

BothComplete == state_file.st = "complete" /\ resume_data_file.st = "complete"

\* C2 as stated: a process killed at any point leaves on disk either the
\* previous complete checkpoint (or none, if none was completed) or the
\* complete new one; never a truncated file, never files of two different saves.
C2_KillLeavesCompleteCheckpoint ==
    proc = "dead" =>
        \/ /\ BothComplete
           /\ state_file.gen = resume_data_file.gen
           /\ state_file.gen \in {committed, saves}
        \/ /\ committed = 0
           /\ ~BothComplete

Backed(cafes, hashes, names, coords) ==
    /\ \A h \in hashes : \E k \in DOMAIN cafes : get_hash(cafes[k]) = h
    /\ \A n \in names : \E k \in DOMAIN cafes : normalize_name(cafes[k].name) = n
    /\ \A c \in coords : \E k \in DOMAIN cafes : coord_tuple(cafes[k]) = c

\* C9 as stated: after load_state has restored a checkpoint, every fingerprint
\* of the restored dedup sets belongs to a record of the restored all_cafes
\* (checked while no add_cafe_if_unique call is under way).
C9_RestoredFingerprintsBacked ==
    (proc = "running" /\ load_result = "true" /\ pc[MainThread] = "idle") =>
        Backed(all_cafes, seen_hashes, seen_names, seen_coordinates)

\* C10: save_state followed by load_state in a new process restores the
\* strategy index, the consecutive-empty count, the high-yield flag, the yield
\* map, the stats and the three dedup sets to the values they had at the save.
C10_RoundTrip ==
    (proc = "running" /\ load_result = "true") => Checkpoint = ckpt

\* a checkpoint with three fingerprints of each kind, a non-empty yield map
\* and a non-zero strategy index was saved and restored
C10_Witness ==
    /\ proc = "running" /\ load_result = "true"
    /\ restarts = 1
    /\ Cardinality(seen_hashes) = 3
    /\ Cardinality(seen_coordinates) = 3
    /\ query_performance # EmptyDict
    /\ current_strategy_index > 0
    /\ high_yield_mode

-----------------------------------------------------------------------------
(* Claims about the deduplication index, checked under Spec *)

\* the three signals of a record as the data model states them
\* (tabulated over the candidate records)
HashTable == [r \in Records |-> get_hash(r)]
NameTable == [r \in Records |-> normalize_name(r.name)]
CellTable == [r \in Records |-> coord_tuple(r)]
exactHash(r) == HashTable[r]
normalizedName(r) == NameTable[r]
coordinateCell(r) == CellTable[r]

SharesSignal(r, q) ==
    \/ exactHash(r) = exactHash(q)
    \/ normalizedName(r) = normalizedName(q)
    \/ coordinateCell(r) = coordinateCell(q)

HasCoordinates(r) == r.lat # 0 /\ r.lon # 0

Called(r) == \E i \in DOMAIN log : log[i].rec = r
Quiescent == \A t \in Threads : pc[t] = "idle"
Retained(r) == {k \in DOMAIN all_cafes : all_cafes[k] = r}

\* C1: two candidate records with identical normalized name and coordinates in
\* the same 4-decimal grid cell are never both retained in all_cafes, whatever
\* the order and the interleaving of the add_cafe_if_unique calls.
C1_AtMostOneRetained ==
    \A i, j \in DOMAIN all_cafes :
        (i # j) =>
            ~ ( /\ normalizedName(all_cafes[i]) = normalizedName(all_cafes[j])
                /\ coordinateCell(all_cafes[i]) = coordinateCell(all_cafes[j]) )

\* rA and rB (same normalized name, same cell) were both fed, by different
\* calls, and one of them is retained
C1_Witness ==
    /\ Called(rA) /\ Called(rB) /\ Quiescent
    /\ Cardinality(Retained(rA)) + Cardinality(Retained(rB)) = 1

\* C4 as stated: for every record and every index state, is_duplicate is true
\* exactly when one of the record's three signals is present in the index.
C4_AnySignalPresent ==
    \A r \in Records :
        is_duplicate(r) <=> \/ exactHash(r) \in seen_hashes
                            \/ normalizedName(r) \in seen_names
                            \/ coordinateCell(r) \in seen_coordinates

\* C4 amended: the coordinate cell counts only for a record whose latitude and
\* longitude are both non-zero; a record with a zero coordinate is a duplicate
\* exactly when its exactHash or its normalizedName is present.
C4_SignalPresentWithCoordinates ==
    \A r \in Records :
        is_duplicate(r) <=> \/ exactHash(r) \in seen_hashes
                            \/ normalizedName(r) \in seen_names
                            \/ /\ HasCoordinates(r)
                               /\ coordinateCell(r) \in seen_coordinates

\* rD is a duplicate by its coordinate cell alone, and rF is not a duplicate
\* although its cell (0.0, 110.2) is in seen_coordinates
C4_Witness ==
    /\ is_duplicate(rD)
    /\ exactHash(rD) \notin seen_hashes /\ normalizedName(rD) \notin seen_names
    /\ ~is_duplicate(rF)
    /\ coordinateCell(rF) \in seen_coordinates

\* the index after adding cafe to the index idx, as one step
Inserted(idx, cafe, withCell) ==
    [cafes |-> Append(idx.cafes, cafe),
     hashes |-> idx.hashes \cup {exactHash(cafe)},
     names |-> idx.names \cup {normalizedName(cafe)},
     coords |-> IF withCell THEN idx.coords \cup {coordinateCell(cafe)}
                ELSE idx.coords]

Returning(t, v) == pc[t] = "release" /\ ret[t] = v

\* C5 as stated: when add_cafe_if_unique returns true, the index is the index
\* of the duplicate check plus the record's three signals and the record.
C5_AllThreeSignals ==
    \A t \in Threads :
        Returning(t, TRUE) => Index = Inserted(chk[t], arg[t], TRUE)

\* C5 amended: when add_cafe_if_unique returns true, the index is the index of
\* the duplicate check plus the record's exactHash and normalizedName, plus its
\* coordinateCell when latitude and longitude are both non-zero, plus the
\* record appended to all_cafes; nothing else changed in between.
C5_SignalsInserted ==
    \A t \in Threads :
        Returning(t, TRUE) =>
            Index = Inserted(chk[t], arg[t], HasCoordinates(arg[t]))

\* a call returns true after another record was retained before it
C5_Witness ==
    \E t \in Threads :
        /\ Returning(t, TRUE)
        /\ HasCoordinates(arg[t])
        /\ Len(chk[t].cafes) > 0

\* C6: add_cafe_if_unique called twice in sequence with the same record, which
\* shared no signal with a retained record before the first call, returns true
\* then false, and the record is retained at most once.
C6_TrueThenFalse ==
    /\ \A i, j \in DOMAIN log :
           (i < j /\ log[i].rec = log[j].rec) =>
               /\ log[i].ret => ~log[j].ret
               /\ (\A k \in 1..(i-1) : log[k].ret => ~SharesSignal(log[k].rec, log[i].rec))
                      => (log[i].ret /\ ~log[j].ret)
    /\ \A r \in Records : Cardinality(Retained(r)) <= 1

C6_Witness ==
    /\ Len(log) = 2
    /\ log[1].rec = log[2].rec
    /\ log[1].ret /\ ~log[2].ret
    /\ Cardinality(Retained(log[1].rec)) = 1

\* C7: a call of add_cafe_if_unique that returns false leaves seen_hashes,
\* seen_names, seen_coordinates and all_cafes as they were at its duplicate
\* check.
C7_FailedInsertChangesNothing ==
    \A t \in Threads : Returning(t, FALSE) => Index = chk[t]

C7_Witness ==
    \E t \in Threads : Returning(t, FALSE) /\ Len(all_cafes) > 0

\* C8: once rA = ("Kopi Abc", -7.78, 110.37), rB = ("kopi abc", -7.780001,
\* 110.370001) and rC = ("Kopi Xyz", -7.90, 110.20) have each been fed once
\* through add_cafe_if_unique on the empty index, exactly 2 records are retained.
FedScenario ==
    /\ Quiescent
    /\ Len(log) = 3
    /\ {log[i].rec : i \in DOMAIN log} = {rA, rB, rC}

C8_ScenarioRetainsTwo == FedScenario => Len(all_cafes) = 2

\* the scenario with the near-duplicate rB fed before rA
C8_Witness ==
    /\ FedScenario
    /\ \E i, j \in DOMAIN log : i < j /\ log[i].rec = rB /\ log[j].rec = rA

-----------------------------------------------------------------------------
(* Claims about resuming a crawl *)

\* C3 as stated: with a deterministic extraction collaborator, a crawl that
\* was paused, saved, reloaded with load_state and resumed with resume=True
\* completes with the number of records that one unbroken pass retains.
C3_ResumedCountEqualsUnbroken ==
    (cpc = "completed" /\ resume) => Len(all_cafes) = UnbrokenCount

-----------------------------------------------------------------------------
(* Claims about a checkpoint that cannot be read *)

\* C11 as stated: when load_state returns False (a checkpoint file is missing
\* or cannot be parsed), the memory of the crawl that follows is that of a
\* fresh start: no retained records, empty dedup sets, strategy index 0 and
\* initial counters; nothing of the unreadable checkpoint is carried over.
C11_FailedLoadStartsFresh ==
    [][(proc = "loading" /\ load_result' = "false") =>
           /\ all_cafes' = <<>>
           /\ seen_hashes' = {} /\ seen_names' = {} /\ seen_coordinates' = {}
           /\ current_strategy_index' = 0
           /\ consecutive_empty_queries' = 0
           /\ query_performance' = EmptyDict
           /\ ~high_yield_mode'
           /\ stats' = [unique_cafes |-> 0, duplicates_removed |-> 0]]_vars

-----------------------------------------------------------------------------
(* Claims about one crawl process in its processing modes, under SpecModes *)

\* a checkpoint file that was on disk is gone after the step
Deleted ==
    \/ state_file.st # "absent" /\ state_file'.st = "absent"
    \/ resume_data_file.st # "absent" /\ resume_data_file'.st = "absent"

\* the step after the loop of a crawl that has no stop and no pause pending
CompletionStep == cpc = "end" /\ ~should_stop /\ ~is_paused

\* C12 as stated: a checkpoint is deleted only by the step that follows a
\* crawl completed with no stop request pending; no other step of a crawl
\* process removes it.
C12_DeletedOnlyAfterCompletion == [][Deleted => CompletionStep]_vars

\* C12 amended: a checkpoint is deleted only (a) when a process starts a crawl
\* that does not resume, or is started with --clear-state, or (b) after the
\* loop of a standard crawl that has neither a stop nor a pause pending; no
\* other step of a crawl process removes it.
C12_DeletedAtFreshStartOrCompletion ==
    [][Deleted =>
           \/ CompletionStep
           \/ /\ proc = "starting"
              /\ cpc' = "cleared" \/ (cpc' = "entry" /\ ~resume')]_vars

\* a standard crawl resumed from the checkpoint on disk has completed, and
\* the checkpoint is gone
C12_Witness ==
    /\ mode = "standard" /\ resume /\ cpc = "completed"
    /\ state_file = NoFile /\ resume_data_file = NoFile

\* C13 as stated: when full_scrape has completed with no pause and no stop
\* pending, in any mode, no checkpoint file is on disk; when it ended by an
\* interrupt or a quit from pause, the checkpoint on disk is the one written
\* at exit.
C13_CheckpointAtExit ==
    /\ (cpc = "completed" /\ ~should_stop /\ ~is_paused) =>
           (state_file = NoFile /\ resume_data_file = NoFile)
    /\ cpc = "interrupted" =>
           /\ BothComplete
           /\ state_file.gen = saves /\ resume_data_file.gen = saves

\* the step starts a query: the loop is past its checks and goes to the
\* search (in the standard loop, to the pass that holds the search)
RunPoints == {"body", "batch_run", "multi_run"}
StartsQuery == cpc \notin RunPoints /\ cpc' \in RunPoints

\* C14 as stated: in every mode, no query is started while the crawl is
\* paused by SIGINT; a query starts only once the pause has been lifted.
C14_PausedStartsNoQuery == [][StartsQuery => ~is_paused']_vars

\* C15 as stated: in every mode, after SIGTERM has set should_stop no query
\* is started.
C15_StopStartsNoQuery == [][StartsQuery => ~should_stop']_vars

\* the run of queries in a row that retained nothing: the count of the
\* standard loop, the observed one in the other modes
Streak == IF mode = "standard" THEN consecutive_empty_queries ELSE empty_streak

\* C16 as stated: in every mode, no query is started once the number of
\* consecutive empty queries has reached max_consecutive_empty.
C16_CeilingStartsNoQuery == [][StartsQuery => Streak < MaxEmptyQueries]_vars

\* the step is a pass of the standard loop whose query failed
FailedPass ==
    /\ cpc = "body" /\ cpc' # "body"
    /\ Len(all_cafes) < MaxCafes
    /\ last_outcome' \in {"reported", "raised"}

\* C17 as stated: a pass of the standard loop whose query failed increments
\* consecutive_empty_queries, records the yield 0 for the query, and goes on
\* to the next query (unless the ceiling of empty queries is reached).
C17_FailureCountsAsEmpty ==
    [][FailedPass =>
           /\ consecutive_empty_queries' = consecutive_empty_queries + 1
           /\ strategies[loop_i + 1].query \in DOMAIN query_performance'
           /\ query_performance'[strategies[loop_i + 1].query] = 0
           /\ cpc' = "top" \/ consecutive_empty_queries' >= MaxEmptyQueries]_vars

\* C18 as stated: once a session teardown or creation has raised, in batch or
\* multi-session mode, the run is aborted: the loop is not at a later query
\* or at another rotation.
C18_RotationFailureAborts == rotation_failed => cpc = "aborted"

\* C19: in multi-session mode no session executes more than
\* max_queries_per_session queries, and no query starts in a session older
\* than session_duration.
C19_SessionBounds ==
    [][/\ mode = "multi" => executed_in_session' <= MaxQueriesPerSession
       /\ (cpc # "multi_run" /\ cpc' = "multi_run") =>
              now' - current_session_start' <= SessionDuration]_vars

\* a query runs after one rotation made at the query ceiling and one made for
\* the age of the session alone
C19_Witness ==
    /\ cpc = "multi_run"
    /\ \E k \in DOMAIN rotations :
           /\ rotations[k].queries = MaxQueriesPerSession
           /\ rotations[k].age <= SessionDuration
    /\ \E k \in DOMAIN rotations :
           /\ rotations[k].queries < MaxQueriesPerSession
           /\ rotations[k].age > SessionDuration
           /\ rotations[k].session > 1

\* C20 as stated: rotate_session sleeps 120 to 420 seconds before every
\* session other than the first, and does not sleep before the first.
C20_DelayBeforeLaterSessions ==
    \A k \in DOMAIN rotations :
        /\ rotations[k].session = 1 => rotations[k].delay = 0
        /\ rotations[k].session > 1 =>
               (rotations[k].delay >= 120 /\ rotations[k].delay <= 420)

-----------------------------------------------------------------------------
(* Claims about the rate limiter, under SpecRate *)

\* C21 as stated: the number of rate_limit actions before the first long
\* break, and between two consecutive long breaks, is at least 12 and at
\* most 18.
C21_BreakEveryTwelveToEighteen ==
    /\ last_gap # 0 => (last_gap >= 12 /\ last_gap <= 18)
    /\ since_break <= 18

\* C22 as stated: every call of rate_limit sleeps at least half the base
\* delay before it returns.
C22_EveryCallSleepsHalfBase ==
    [][anti_session_count' = anti_session_count + 1 => 2 * slept' >= BaseDelay]_vars

-----------------------------------------------------------------------------
(* Claims about the strategy generator, under SpecGen *)

\* the list is in ascending priority and, within one priority, in
\* non-increasing expected_results
Ordered(list) ==
    \A i, j \in DOMAIN list :
        i < j =>
            /\ list[i].priority <= list[j].priority
            /\ list[i].priority = list[j].priority =>
                   list[i].expected_results >= list[j].expected_results

\* C23: every list a generator returns is ordered by ascending priority and,
\* within one priority, by non-increasing expected_results, and sorting it
\* again leaves it unchanged.
C23_SortedAndStable ==
    \A n \in DOMAIN generated :
        /\ Ordered(generated[n].strategies)
        /\ sort_strategies(generated[n].strategies) = generated[n].strategies

\* both generators have returned a list: one list has several priorities,
\* one has two values of expected_results within a priority
C23_Witness ==
    /\ Len(generated) >= 2
    /\ \E n \in DOMAIN generated :
           /\ generated[n].generator = "cafe_scraper"
           /\ \E i, j \in DOMAIN generated[n].strategies :
                  generated[n].strategies[i].priority
                      # generated[n].strategies[j].priority
    /\ \E n \in DOMAIN generated :
           /\ generated[n].generator = "standalone"
           /\ \E i, j \in DOMAIN generated[n].strategies :
                  /\ generated[n].strategies[i].priority
                         = generated[n].strategies[j].priority
                  /\ generated[n].strategies[i].expected_results
                         # generated[n].strategies[j].expected_results

\* C25 as stated: the list _generate_search_strategies of cafe_scraper.py
\* returns has every query string at most once.
C25_EachQueryOnce ==
    \A n \in DOMAIN generated :
        generated[n].generator = "cafe_scraper" =>
            \A i, j \in DOMAIN generated[n].strategies :
                generated[n].strategies[i].query = generated[n].strategies[j].query
                    => i = j

\* C26 as stated: two calls of the same generator on the same corpus return
\* the same strategies in the same order.
C26_Deterministic ==
    \A n, m \in DOMAIN generated :
        generated[n].generator = generated[m].generator =>
            generated[n].strategies = generated[m].strategies

-----------------------------------------------------------------------------
(* Claim about the order in which full_scrape executes, under SpecOrder *)

\* C24 as stated: the strategies full_scrape has executed so far are in
\* non-decreasing priority and, within one priority, in non-increasing
\* expected_results, also after the switch to high-yield mode and with an
\* area filter.
C24_ExecutedInOrder == Ordered(SubSeq(strategies, 1, loop_i))

-----------------------------------------------------------------------------
(* Claims about the coordinator, under SpecCoord and SpecCoordFair *)

Merged == coord_pc \in {"save", "done"}

\* C27 as stated: after merge_and_deduplicate_results no two merged records,
\* of one instance or of two, share an exactHash, a normalizedName or a
\* coordinateCell.
C27_MergedGloballyUnique ==
    \A i, j \in DOMAIN all_results :
        (i < j) =>
            /\ get_hash(all_results[i].cafe) # get_hash(all_results[j].cafe)
            /\ normalize_name(all_results[i].cafe.name)
                   # normalize_name(all_results[j].cafe.name)
            /\ coord_tuple(all_results[i].cafe) # coord_tuple(all_results[j].cafe)

RECURSIVE SumOfCounts(_)
SumOfCounts(contributions) ==
    IF contributions = <<>> THEN 0
    ELSE Head(contributions).count + SumOfCounts(Tail(contributions))

\* the files are those of the scenario of 50 and 60 records
InScenario == Len(instance_files[0].cafes) = 50 /\ instance_files = MergeScenario

\* C28: once the merge has run, the merged count plus the duplicates it reports
\* as removed is the number of records loaded from all instances; the written
\* metadata says the same and its per-instance contributions sum to that
\* number; and on 50 records and 60 records with 10 exact duplicates the merge
\* has 100 records and reports 10 removed.
C28_CountsAddUp ==
    /\ Merged =>
           /\ Len(all_results) + duplicates_removed = TotalLoaded(instance_results)
           /\ InScenario =>
                  Len(all_results) = 100 /\ duplicates_removed = 10
    /\ \A k \in DOMAIN final_report :
           LET metadata == final_report[k].metadata
           IN  /\ metadata.total_cafes + metadata.total_duplicates_removed
                      = TotalLoaded(instance_results)
               /\ SumOfCounts(metadata.instance_contributions)
                      = TotalLoaded(instance_results)
               /\ metadata.total_cafes = Len(final_report[k].cafes)
               /\ InScenario =>
                      /\ metadata.total_cafes = 100
                      /\ metadata.total_duplicates_removed = 10

\* the scenario of 50 and 60 records has been merged and saved
C28_Witness ==
    /\ InScenario
    /\ coord_pc = "done"
    /\ final_report # <<>>
    /\ duplicates_removed = 10

SameCafe(a, b) == a.lat = b.lat /\ a.lon = b.lon /\ a.name = b.name

\* C29 as stated: whatever instances have a missing, unreadable or empty
\* output file, all of them included, collecting and merging raise nothing,
\* and the merge holds exactly the records of the instances with output.
C29_MergeToleratesMissingFiles ==
    /\ coord_pc # "raised"
    /\ Merged =>
           /\ \A k \in DOMAIN all_results :
                  \E i \in Instances :
                      \E n \in DOMAIN instance_files[i].cafes :
                          SameCafe(instance_files[i].cafes[n], all_results[k].cafe)
           /\ \A i \in Instances :
                  \A n \in DOMAIN instance_files[i].cafes :
                      \E k \in DOMAIN all_results :
                          SameCafe(all_results[k].cafe, instance_files[i].cafes[n])

\* C30 as stated: when an instance has crashed or has failed to launch,
\* monitor_instances eventually returns.
C30_MonitorReturns ==
    (\E i \in Instances : instance_state[i] \in {"crashed", "failed"})
        ~> (coord_pc # "monitor")

-----------------------------------------------------------------------------
(* Claim about the counters of the deduplication index, under Spec *)

\* C39: when every add_cafe_if_unique call made on a fresh scraper has
\* returned, len(all_cafes) = stats['unique_cafes'] = len(seen_hashes),
\* seen_names and seen_coordinates are no larger than all_cafes, and
\* unique_cafes + duplicates_removed is the number of calls made.
C39_CountersAgree ==
    Quiescent =>
        /\ Len(all_cafes) = stats.unique_cafes
        /\ stats.unique_cafes = Cardinality(seen_hashes)
        /\ Cardinality(seen_names) <= Len(all_cafes)
        /\ Cardinality(seen_coordinates) <= Len(all_cafes)
        /\ stats.unique_cafes + stats.duplicates_removed = Len(log)

\* three calls have returned, two of them retained a record and one was a
\* duplicate; one retained record has no coordinates
C39_Witness ==
    /\ Quiescent
    /\ Len(log) = 3
    /\ stats.unique_cafes = 2
    /\ stats.duplicates_removed = 1
    /\ Cardinality(seen_coordinates) = 1

-----------------------------------------------------------------------------------------------------------------------------------------------------
(* the standard loop of full_scrape with pauses and signals, run to its end *)

\* the generator returns the same list at every call; the first query lists
\* nothing, or two cafes
InitLoop == InitFullScrape([low |-> OrderReturned.low], {<<>>}, {<<>>, <<rA, rF>>})

\* an answer typed at the prompt of handle_pause
Answered == \E user_input \in {"r", "q", "s", "eof", "none"} : HandlePause(user_input)

NextLoop ==
    \/ LoopTop
    \/ Answered
    \/ Body
    \/ End
    \/ \E signum \in {"SIGINT", "SIGTERM"} : CrawlSignal(signum)

\* the step that leaves position p: LoopTop at "top", Answered at "paused",
\* Body at "body", End at "end"; no other step of NextLoop changes cpc
Leaves(p) ==
    /\ cpc = p
    /\ cpc' \in {"top", "paused", "body", "end", "completed", "interrupted"} \ {p}

\* the interpreter runs the loop on and the user answers every prompt: weak
\* fairness of LoopTop, Answered, Body and End, stated on the position they
\* leave; signals may or may not arrive
LoopFairness == \A p \in {"top", "paused", "body", "end"} : WF_cpc(Leaves(p))

SpecLoop == InitLoop /\ [][NextLoop]_vars /\ LoopFairness

-----
(* One uninterrupted run of full_scrape in each processing mode: no signal, *)
(* no failing query, no failing rotation                                    *)

\* what the result panel lists, in three runs: nothing at all; rA for the
\* first query of the list; rA for its last query
SavingResults ==
    {[q \in OrderQueries |-> <<>>],
     [q \in OrderQueries |-> IF q = OrderReturned.low[1].query THEN <<rA>> ELSE <<>>],
     [q \in OrderQueries |->
         IF q = OrderReturned.low[Len(OrderReturned.low)].query THEN <<rA>> ELSE <<>>]}

\* full_scrape(resume=False) after clear_state and the generator, at the
\* dispatch on batch_mode and multi_session
InitSaving ==
    /\ FreshMemory
    /\ state_file = NoFile
    /\ resume_data_file = NoFile
    /\ proc = "running"
    /\ save_pc = "none"
    /\ saves = 0
    /\ restarts = 0
    /\ load_result = "none"
    /\ committed = 0
    /\ ckpt = Checkpoint
    /\ cpc = "entry"
    /\ loop_i = 0
    /\ generated = <<[generator |-> "cafe_scraper", stream |-> "low",
                      strategies |-> OrderReturned.low],
                     [generator |-> "cafe_scraper", stream |-> "low",
                      strategies |-> OrderReturned.low]>>
    /\ area_filter = <<>>
    /\ strategies = generated[1].strategies
    /\ resume = FALSE
    /\ search_results \in SavingResults
    /\ pc = [t \in Threads |-> "idle"]
    /\ arg = [t \in Threads |-> rA]
    /\ ret = [t \in Threads |-> FALSE]
    /\ log = <<>>
    /\ chk = [t \in Threads |-> EmptyIndex]
    /\ data_lock = 0
    /\ mode \in {"standard", "batch", "multi"}
    /\ batch_num = 0
    /\ queries_in_session = 0
    /\ session_count = 0
    /\ current_session_start = 0
    /\ now = 0
    /\ driver = "none"
    /\ rotations = <<>>
    /\ rotation_failed = FALSE
    /\ last_outcome = "none"
    /\ empty_streak = 0
    /\ executed_in_session = 0
    /\ max_consecutive_empty = DefaultMaxEmpty
    /\ output_file = NoOutput
    /\ extraction = ExtractionIdle
    /\ touched = <<>>
    /\ query_distribution = <<>>
    /\ RateIdle
    /\ CoordIdle

NextSaving ==
    \/ EnterLoop
    \/ LoopTop
    \/ Body
    \/ End
    \/ BatchHead
    \/ BatchNext
    \/ BatchRun("ok")
    \/ BatchAfter("none")
    \/ MultiHead
    \/ \E delay \in {0, 120} : RotateSession("none", delay)
    \/ MultiRun("ok")

SpecSaving == InitSaving /\ [][NextSaving]_vars

-----
(* process_elements_parallel on one batch of elements: the worker threads of *)
(* the pool run process_single_element, the main thread collects the         *)
(* futures as they complete                                                  *)

\* the elements of the batch and self.max_workers
NumElements == 3
MaxWorkers == 2

\* "if precision_score >= 0.8", in hundredths
HighPrecision == 80

\* what extract_cafe_data makes of an element: a record with the precision
\* score of its coordinates, or an exception (it then returns None)
ElementChoices ==
    {[cafe |-> rA, precision_score |-> 90, raises |-> FALSE],
     [cafe |-> rC, precision_score |-> 50, raises |-> FALSE],
     [cafe |-> rA, precision_score |-> 0, raises |-> TRUE]}

Elements == 1..NumElements

\* the elements a worker thread is processing
Running ==
    {i \in Elements :
        extraction.task[i].pc \in {"store_total", "extract", "store_high"}}

InitExtract ==
    /\ FreshMemory
    /\ state_file = NoFile
    /\ resume_data_file = NoFile
    /\ proc = "running"
    /\ save_pc = "none"
    /\ saves = 0
    /\ restarts = 0
    /\ load_result = "none"
    /\ committed = 0
    /\ ckpt = Checkpoint
    /\ LoopIdle
    /\ ModesIdle
    /\ pc = [t \in Threads |-> "idle"]
    /\ arg = [t \in Threads |-> rA]
    /\ ret = [t \in Threads |-> FALSE]
    /\ log = <<>>
    /\ chk = [t \in Threads |-> EmptyIndex]
    /\ data_lock = 0
    /\ max_consecutive_empty = MaxEmptyQueries
    /\ area_filter = <<>>
    /\ output_file = NoOutput
    /\ \E elements \in [Elements -> ElementChoices] :
           extraction =
               [elements |-> elements,
                task |-> [i \in Elements |-> [pc |-> "queued", seen |-> 0]],
                stats |-> [total_processed |-> 0, high_precision_count |-> 0,
                           successful_extractions |-> 0, failed_extractions |-> 0]]
    /\ touched = <<>>
    /\ query_distribution = <<>>
    /\ RateIdle
    /\ generated = <<>>
    /\ CoordIdle

\* everything but the index and the extraction
extractionRest ==
    <<threadVars, crawlVars, diskVars, procVars, ghostVars, loopVars, modeVars,
      max_consecutive_empty, area_filter, output_file, fleetVars, rateVars, generated,
      coordVars>>

\* a worker of the pool takes element i; process_single_element:
\* self.stats['total_processed'] += 1 reads the counter
LoadTotal(i) ==
    /\ extraction.task[i].pc = "queued"
    /\ Cardinality(Running) < MaxWorkers
    /\ extraction' = [extraction EXCEPT
                          !.task[i] = [pc |-> "store_total",
                                       seen |-> extraction.stats.total_processed]]
    /\ UNCHANGED <<indexVars, extractionRest>>

\* ... and stores the sum
StoreTotal(i) ==
    /\ extraction.task[i].pc = "store_total"
    /\ extraction' = [extraction EXCEPT !.task[i].pc = "extract",
                                        !.stats.total_processed =
                                            extraction.task[i].seen + 1]
    /\ UNCHANGED <<indexVars, extractionRest>>

\* extract_cafe_data: it raises and None is returned, or it comes to the
\* precision test and self.stats['high_precision_count'] += 1 reads the counter
Extract(i) ==
    /\ extraction.task[i].pc = "extract"
    /\ extraction' =
           IF ~extraction.elements[i].raises
              /\ extraction.elements[i].precision_score >= HighPrecision
           THEN [extraction EXCEPT
                    !.task[i] = [pc |-> "store_high",
                                 seen |-> extraction.stats.high_precision_count]]
           ELSE [extraction EXCEPT !.task[i].pc = "returned"]
    /\ UNCHANGED <<indexVars, extractionRest>>

\* ... and stores the sum; the record is returned
StoreHigh(i) ==
    /\ extraction.task[i].pc = "store_high"
    /\ extraction' = [extraction EXCEPT !.task[i].pc = "returned",
                                        !.stats.high_precision_count =
                                            extraction.task[i].seen + 1]
    /\ UNCHANGED <<indexVars, extractionRest>>

\* the main thread in the as_completed loop: add_cafe_if_unique and
\* successful_extractions for a record, failed_extractions for None
Collect(i) ==
    /\ extraction.task[i].pc = "returned"
    /\ IF extraction.elements[i].raises
       THEN /\ extraction' = [extraction EXCEPT !.task[i].pc = "collected",
                                                !.stats.failed_extractions = @ + 1]
            /\ UNCHANGED indexVars
       ELSE \E m \in {AddIfUnique(Memory, extraction.elements[i].cafe)} :
               /\ all_cafes' = m.all_cafes
               /\ seen_hashes' = m.seen_hashes
               /\ seen_names' = m.seen_names
               /\ seen_coordinates' = m.seen_coordinates
               /\ stats' = m.stats
               /\ extraction' =
                      [extraction EXCEPT
                          !.task[i].pc = "collected",
                          !.stats.successful_extractions =
                              IF Len(m.all_cafes) > Len(all_cafes) THEN @ + 1 ELSE @]
    /\ UNCHANGED extractionRest

NextExtract ==
    \E i \in Elements :
        \/ LoadTotal(i)
        \/ StoreTotal(i)
        \/ Extract(i)
        \/ StoreHigh(i)
        \/ Collect(i)

SpecExtract == InitExtract /\ [][NextExtract]_vars

-----
(* multi_instance_coordinator.py: distribute_queries_by_region, and the area *)
(* filters of the instances applied to the list of the generator             *)

\* --instances and --max-cafes of the coordinator
MaxFleet == 7
MaxTarget == 20

\* the table regions, by instance number; instance_3 and instance_4 are added
\* when there are more than 3 instances
RegionTable(num_instances) ==
    <<<< <<"m","a","l","i","o","b","o","r","o">>, <<"t","u","g","u">>, <<"k","r","a","t","o","n">>, <<"a","l","u","n"," ","a","l","u","n">>, <<"j","o","g","j","a"," ","c","i","t","y">> >>,
      << <<"u","g","m">>, <<"c","o","n","d","o","n","g","c","a","t","u","r">>, <<"s","l","e","m","a","n">>, <<"d","e","p","o","k">>, <<"g","e","j","a","y","a","n">> >>,
      << <<"b","a","n","t","u","l">>, <<"s","e","w","o","n">>, <<"k","a","s","i","h","a","n">>, <<"p","a","r","a","n","g","t","r","i","t","i","s">> >>>>
    \o (IF num_instances > 3
        THEN <<<< <<"k","u","l","o","n"," ","p","r","o","g","o">>, <<"w","a","t","e","s">>, <<"p","e","n","g","a","s","i","h">> >>,
               << <<"g","u","n","u","n","g","k","i","d","u","l">>, <<"w","o","n","o","s","a","r","i">>, <<"p","l","a","y","e","n">> >>>>
        ELSE <<>>)

\* regions.get(instance_key, ["yogyakarta"])
RegionKeywords(num_instances, i) ==
    IF i + 1 \in DOMAIN RegionTable(num_instances)
    THEN RegionTable(num_instances)[i + 1]
    ELSE << <<"y","o","g","y","a","k","a","r","t","a">> >>

\* distribute_queries_by_region: the dict, in insertion order, instance_i at
\* position i + 1
distribute_queries_by_region(num_instances, max_cafes_per_instance) ==
    [k \in 1..num_instances |->
        [max_cafes |-> max_cafes_per_instance,
         area_filter |-> RegionKeywords(num_instances, k - 1)[1],
         priority_areas |-> RegionKeywords(num_instances, k - 1),
         instance_id |-> k - 1,
         comprehensive_mode |-> TRUE]]

\* a corpus with the regions and sub-areas the table names
FleetCorpus ==
    [OrderCorpus EXCEPT
        !.regions = << <<"y","o","g","y","a","k","a","r","t","a">>, <<"b","a","n","t","u","l">>, <<"k","u","l","o","n"," ","p","r","o","g","o">>, <<"g","u","n","u","n","g","k","i","d","u","l">> >>,
        !.sub_areas = << <<"m","a","l","i","o","b","o","r","o">>, <<"d","e","p","o","k">> >>]

FleetReturned ==
    [low |-> generate_search_strategies(FleetCorpus, "low"),
     high |-> generate_search_strategies(FleetCorpus, "high")]

\* the coordinator has been constructed; self.search_strategies of every
\* instance will be the list the generator returns
InitPartition ==
    /\ FreshMemory
    /\ state_file = NoFile
    /\ resume_data_file = NoFile
    /\ proc = "running"
    /\ save_pc = "none"
    /\ saves = 0
    /\ restarts = 0
    /\ load_result = "none"
    /\ committed = 0
    /\ ckpt = Checkpoint
    /\ cpc = "none"
    /\ loop_i = 0
    /\ \E stream \in DOMAIN FleetReturned : strategies = FleetReturned[stream]
    /\ resume = FALSE
    /\ search_results = EmptyDict
    /\ ModesIdle
    /\ pc = [t \in Threads |-> "idle"]
    /\ arg = [t \in Threads |-> rA]
    /\ ret = [t \in Threads |-> FALSE]
    /\ log = <<>>
    /\ chk = [t \in Threads |-> EmptyIndex]
    /\ data_lock = 0
    /\ SideIdle

\* run_coordinated_scraping up to the call of monitor_instances: the share of
\* each instance and the distribution
Distribute(num_instances, max_cafes) ==
    /\ query_distribution = <<>>
    /\ query_distribution' =
           distribute_queries_by_region(
               num_instances, (max_cafes \div num_instances) + (max_cafes % num_instances))
    /\ UNCHANGED <<indexVars, threadVars, crawlVars, diskVars, procVars, ghostVars,
                   loopVars, modeVars, max_consecutive_empty, area_filter, output_file,
                   extraction, touched, rateVars, generated, coordVars>>

NextPartition ==
    \E num_instances \in 1..MaxFleet, max_cafes \in 1..MaxTarget :
        Distribute(num_instances, max_cafes)

SpecPartition == InitPartition /\ [][NextPartition]_vars

-----
(* A coordinated run with its child processes: what each child does to the *)
(* files, and the shutdown of the coordinator                              *)

\* env['SCRAPER_OUTPUT_DIR'] of instance i: f"{self.output_dir}/instance_{i}",
\* the directory collect_instance_results walks
InstanceDir(i) == [base |-> "data/multi_instance", instance |-> i]

\* self.output_dir of a child: main calls UltimateCafeScraper() with the
\* default "data" and the working directory of the coordinator; the
\* environment is not read
ScraperDir(env) == [base |-> "data", instance |-> -1]

CheckpointFiles == {"scraper_state.json", "resume_data.json"}

\* the records instance i has retained when it saves its output
FleetCafes(i) == IF i = 0 THEN <<rA>> ELSE <<rC>>

Event(i, op, dir, file, cafes) ==
    [instance |-> i, op |-> op, dir |-> dir, file |-> file, cafes |-> cafes]

\* __init__ of the child has run: the signal handlers are installed
Started(i) == \E k \in DOMAIN touched : touched[k].instance = i /\ touched[k].op = "start"

\* os.path.exists: the last write or removal of the file was a write
Exists(dir, file) ==
    \E k \in DOMAIN touched :
        /\ touched[k].dir = dir /\ touched[k].file = file /\ touched[k].op = "write"
        /\ \A j \in (k + 1)..Len(touched) :
               ~(touched[j].dir = dir /\ touched[j].file = file)

\* the events of clear_state in dir: each checkpoint file that exists is removed
Cleared(i, dir) ==
    (IF Exists(dir, "scraper_state.json")
     THEN <<Event(i, "delete", dir, "scraper_state.json", <<>>)>> ELSE <<>>)
    \o (IF Exists(dir, "resume_data.json")
        THEN <<Event(i, "delete", dir, "resume_data.json", <<>>)>> ELSE <<>>)

\* the events of save_state in dir
Saved(i, dir) ==
    <<Event(i, "write", dir, "scraper_state.json", <<>>),
      Event(i, "write", dir, "resume_data.json", <<>>)>>

\* run_coordinated_scraping has distributed the queries and called
\* monitor_instances; the instance directories are new and empty
InitFleet ==
    /\ FreshMemory
    /\ state_file = NoFile
    /\ resume_data_file = NoFile
    /\ proc = "running"
    /\ save_pc = "none"
    /\ saves = 0
    /\ restarts = 0
    /\ load_result = "none"
    /\ committed = 0
    /\ ckpt = Checkpoint
    /\ LoopIdle
    /\ ModesIdle
    /\ pc = [t \in Threads |-> "idle"]
    /\ arg = [t \in Threads |-> rA]
    /\ ret = [t \in Threads |-> FALSE]
    /\ log = <<>>
    /\ chk = [t \in Threads |-> EmptyIndex]
    /\ data_lock = 0
    /\ max_consecutive_empty = MaxEmptyQueries
    /\ area_filter = <<>>
    /\ output_file = NoOutput
    /\ extraction = ExtractionIdle
    /\ touched = <<>>
    /\ \E max_cafes \in {2, 3} :
           query_distribution =
               distribute_queries_by_region(
                   NumInstances, (max_cafes \div NumInstances) + (max_cafes % NumInstances))
    /\ RateIdle
    /\ generated = <<>>
    /\ instance_files = [i \in Instances |-> NoJson]
    /\ instance_state = [i \in Instances |-> "pending"]
    /\ instance_processes = <<>>
    /\ instance_results = <<>>
    /\ all_results = <<>>
    /\ duplicates_removed = 0
    /\ coord_pc = "monitor"
    /\ final_report = <<>>

\* everything but touched, instance_state and coord_pc
fleetRest ==
    <<indexVars, threadVars, crawlVars, diskVars, procVars, ghostVars, loopVars,
      modeVars, max_consecutive_empty, area_filter, output_file, extraction,
      query_distribution, rateVars, generated, instance_files, instance_processes,
      instance_results, all_results, duplicates_removed, final_report>>

\* the child of instance i from main to the loop of full_scrape: __init__,
\* then clear_state, since the command line has no --resume
ChildStarts(i) ==
    /\ instance_state[i] = "running"
    /\ ~Started(i)
    /\ touched' = Append(touched, Event(i, "start", ScraperDir(InstanceDir(i)), "none", <<>>))
                  \o Cleared(i, ScraperDir(InstanceDir(i)))
    /\ UNCHANGED <<instance_state, coord_pc, fleetRest>>

\* save_data("progress") in the child of instance i
ChildSaves(i) ==
    /\ instance_state[i] = "running"
    /\ Started(i)
    /\ ~\E k \in DOMAIN touched : touched[k].instance = i /\ touched[k].file = "output"
    /\ touched' = Append(touched, Event(i, "write", ScraperDir(InstanceDir(i)), "output",
                                       FleetCafes(i)))
    /\ UNCHANGED <<instance_state, coord_pc, fleetRest>>

\* KeyboardInterrupt in the sleep of monitor_instances
Interrupt ==
    /\ coord_pc = "monitor"
    /\ coord_pc' = "interrupted"
    /\ UNCHANGED <<touched, instance_state, fleetRest>>

\* the except clauses of run_coordinated_scraping, after the executor has been
\* shut down (it waits for the launches): cleanup_instances calls terminate()
\* on every process that is still running and returns; the coordinator exits
cleanup_instances ==
    /\ coord_pc \in {"interrupted", "raised"}
    /\ \A i \in Instances : instance_state[i] # "pending"
    /\ instance_state' =
           [i \in Instances |->
               IF instance_state[i] = "running" THEN "terminating" ELSE instance_state[i]]
    /\ coord_pc' = "exited"
    /\ UNCHANGED <<touched, fleetRest>>

\* SIGTERM reaches the child of instance i: before __init__ the default action
\* ends the process; after it signal_handler sets should_stop and calls
\* save_state, and the loop of process_strategies_with_rotation, which does
\* not read should_stop, runs on
HandleTerm(i) ==
    /\ instance_state[i] = "terminating"
    /\ IF Started(i)
       THEN /\ instance_state' = [instance_state EXCEPT ![i] = "running"]
            /\ touched' = touched \o Saved(i, ScraperDir(InstanceDir(i)))
       ELSE /\ instance_state' = [instance_state EXCEPT ![i] = "crashed"]
            /\ UNCHANGED touched
    /\ UNCHANGED <<coord_pc, fleetRest>>

\* the instance directories stay empty, so the merge loads nothing, its last
\* log line raises and save_final_results is not reached
NextFleet ==
    \/ \E i \in Instances : launch_instance(i)
    \/ \E i \in Instances : launch_fails(i)
    \/ \E i \in Instances : ChildStarts(i)
    \/ \E i \in Instances : ChildSaves(i)
    \/ \E i \in Instances, how \in {"exited", "crashed"} : InstanceEnds(i, how)
    \/ MonitorRound
    \/ Merge
    \/ Interrupt
    \/ cleanup_instances
    \/ \E i \in Instances : HandleTerm(i)

SpecFleet == InitFleet /\ [][NextFleet]_vars

-----
(* Claim about the area filter, under SpecArea *)

\* the queries the loop has executed: each one is entered in query_performance
ExecutedQueries == DOMAIN query_performance

\* C36: every query that full_scrape executes with an area filter contains the
\* filter, compared without regard to case, also after the switch to
\* high-yield mode
C36_ExecutedQueriesContainArea ==
    area_filter # <<>> =>
        \A q \in ExecutedQueries : Contains(StrLower(q), StrLower(area_filter))

-----------------------------------------------------------------------------
(* Claim about the end of the standard loop, under SpecLoop *)

\* the pass of the loop at index loop_i with the target already reached
AtTarget == cpc = "body" /\ Len(all_cafes) >= MaxCafes

\* C40: when every pause is answered the standard loop of full_scrape comes to
\* its end; the index only advances, by one for each pass, and never beyond
\* the list; a pass that finds len(all_cafes) >= max_cafes runs no query and
\* leaves the loop; the list is replaced at most once, when high_yield_mode is
\* set, and keeps its length
C40_LoopTerminates ==
    /\ <>(cpc \in {"completed", "interrupted"})
    /\ [](loop_i <= Len(strategies) /\ (cpc = "body" => loop_i < Len(strategies)))
    /\ [][/\ loop_i' \in {loop_i, loop_i + 1}
          /\ loop_i' = loop_i + 1 => cpc = "body" /\ cpc' = "top"
          /\ AtTarget => /\ query_performance' = query_performance
                         /\ all_cafes' = all_cafes
                         /\ loop_i' = loop_i
                         /\ cpc' \in {"body", "end"}
          /\ strategies' # strategies => ~high_yield_mode /\ high_yield_mode'
          /\ high_yield_mode /\ proc' = "running" => high_yield_mode'
          /\ Len(strategies') = Len(strategies)]_vars

\* the loop has switched to high-yield mode and has run to the end of the list
C40_Witness ==
    /\ cpc = "completed"
    /\ high_yield_mode
    /\ loop_i = Len(strategies)
    /\ Len(strategies) > HighYieldAfter

-----
(* Claims about the periodic checkpoint and the output files, under *)
(* SpecSaving                                                       *)

\* the queries the loop of the mode has gone through
CompletedQueries ==
    IF mode = "batch" THEN BatchStart + (IF cpc = "batch_head" THEN 0 ELSE loop_i)
    ELSE loop_i

\* the queries the checkpoint on disk covers: a resumed run starts again at
\* the saved index
CheckpointedQueries ==
    IF state_file.st = "complete" THEN state_file.data.current_strategy_index + 1 ELSE 0

\* C37: in every processing mode the checkpoint is saved after every N
\* completed queries (N = 20), so while an uninterrupted run is in its loop the
\* checkpoint on disk is never more than N queries behind the crawl
C37_CheckpointEveryN ==
    cpc \in {"top", "body", "batch_head", "batch_query", "batch_run", "batch_after",
             "multi_head", "multi_rotate", "multi_run"}
        => CompletedQueries - CheckpointedQueries <= SaveEvery

\* full_scrape returns: normally, after an interruption, or after an error
Returns ==
    /\ cpc \notin {"completed", "interrupted", "aborted"}
    /\ cpc' \in {"completed", "interrupted", "aborted"}

\* C38: when full_scrape returns after a run that retained at least one
\* record, in every processing mode, the newest file written by save_data
\* holds every record of all_cafes
C38_OutputHoldsAllAtReturn ==
    [][Returns /\ all_cafes # <<>> => output_file'.cafes = all_cafes]_vars

-----
(* Claim about the counters of the parallel extraction, under SpecExtract *)

\* every future of the batch has been collected
BatchDone == \A i \in Elements : extraction.task[i].pc = "collected"

\* the elements that passed the precision test, and those that returned None
HighPrecisionEvents ==
    {i \in Elements : /\ ~extraction.elements[i].raises
                      /\ extraction.elements[i].precision_score >= HighPrecision}
FailedEvents == {i \in Elements : extraction.elements[i].raises}

\* C35: the worker threads write no shared state outside data_lock, so when
\* the batch is done every counter of stats equals the number of events it
\* counts: total_processed the elements, high_precision_count the records
\* that passed the precision test, failed_extractions the failed elements
C35_CountersExact ==
    BatchDone =>
        /\ extraction.stats.total_processed = NumElements
        /\ extraction.stats.high_precision_count = Cardinality(HighPrecisionEvents)
        /\ extraction.stats.failed_extractions = Cardinality(FailedEvents)

-----
(* Claim about the partitions of a coordinated run, under SpecPartition *)

\* the queries the area filter of the instance at position k selects:
\* full_scrape keeps the strategies whose query contains the filter
SelectedBy(k) ==
    {st.query : st \in
        {AreaFiltered(strategies, query_distribution[k].area_filter)[x] :
            x \in DOMAIN AreaFiltered(strategies, query_distribution[k].area_filter)}}

\* C33: for any number of instances the partitions are pairwise disjoint: no
\* query is selected by the area filters of two different instances
C33_PartitionsDisjoint ==
    \A j, k \in DOMAIN query_distribution :
        j # k => SelectedBy(j) \cap SelectedBy(k) = {}

-----
(* Claims about the processes of a coordinated run, under SpecFleet *)

\* C31: when run_coordinated_scraping was interrupted or failed, no child
\* process is still running once the coordinator has exited
C31_NoChildOutlivesCoordinator ==
    coord_pc = "exited" =>
        \A i \in Instances : instance_state[i] \notin {"running", "terminating"}

\* the records of the newest output file instance i wrote
WrittenBy(i) ==
    IF \E k \in DOMAIN touched : touched[k].instance = i /\ touched[k].file = "output"
    THEN touched[CHOOSE k \in DOMAIN touched :
                    /\ touched[k].instance = i /\ touched[k].file = "output"
                    /\ \A j \in (k + 1)..Len(touched) :
                           ~(touched[j].instance = i /\ touched[j].file = "output")].cafes
    ELSE <<>>

\* C32: every instance writes its output files under its own directory
\* <output_dir>/instance_i, and what collect_instance_results(i) loaded are
\* the records instance i wrote
C32_OutputUnderInstanceDir ==
    /\ \A k \in DOMAIN touched :
           touched[k].file = "output" => touched[k].dir = InstanceDir(touched[k].instance)
    /\ \A k \in DOMAIN instance_results :
           instance_results[k].cafes = WrittenBy(instance_results[k].instance_id)

\* C34: a checkpoint file is removed or written by one process only
C34_CheckpointOwnedByOneProcess ==
    \A j, k \in DOMAIN touched :
        /\ touched[j].file \in CheckpointFiles
        /\ touched[k].file = touched[j].file
        /\ touched[k].dir = touched[j].dir
        => touched[k].instance = touched[j].instance

=============================================================================
